---------------------------- MODULE Spec2Model ----------------------------
(***************************************************************************)
(* A model of the SAT solver suite: the DIMACS reader, the CDCL engine,    *)
(* DPLL with Jeroslow-Wang branching, WalkSAT and probSAT.                 *)
(*                                                                         *)
(* Conventions.  A literal is a non-zero integer, a clause a sequence of   *)
(* literals, a formula a sequence of clauses.  A Python dict is a function *)
(* whose DOMAIN is the dict's key set; None is the string "None" for a     *)
(* truth value, 0 for a variable and the empty sequence for a clause (the  *)
(* reader never yields an empty clause).  Clause indices are 1-based here  *)
(* (Python's idx + 1).                                                     *)
(***************************************************************************)
EXTENDS Integers, Sequences, FiniteSets, TLC

VARIABLES
    text,     \* the input file: a sequence of lines [kind, toks]
    cnf,      \* CNFFormula returned by parse_dimacs
    state,    \* cdcl.SolverState
    stats,    \* cdcl.SolverStats
    ctl,      \* locals of cdcl.run_solver / cdcl.cdcl / analyze_conflict
    result,   \* the record returned by cdcl.run_solver ("status" = "" while running)
    frames,   \* dpll_jw: the stack of dpll calls, the innermost last
    dstats,   \* dpll_jw.SolverStats
    dresult,  \* the record returned by dpll_jw.run_solver
    ls,       \* walksat / probsat, per process: the arguments of main and the
              \* locals of run_solver and walk_sat / prob_sat
    rng,      \* per process: the generator of its random module
    stream,   \* what the seed's stream is known to yield, as far as a
              \* generator can still come to read it
    turn,     \* the process that takes the next step
    lresults, \* per process: the record returned by walksat / probsat run_solver
    harness,  \* harness/run_experiments.py, per process: the arguments of main,
              \* the solvers still to run on the file, the records written
    puzzle,   \* sudoku_encoder: the grid returned by parse_puzzle
    listing,  \* the clauses handed to write_dimacs
    file,     \* a DIMACS file: its lines, each the sequence of its characters
    call      \* dpll_jw.assign_literal called on its own: the arguments and
              \* what the call returns

cdclVars == <<state, stats, ctl, result>>
dpllVars == <<frames, dstats, dresult>>
lsVars == <<ls, rng, stream, turn, lresults>>
harnessVars == <<harness>>
encoderVars == <<puzzle, listing, file>>
callVars == <<call>>
notCdcl == <<dpllVars, lsVars, harnessVars, encoderVars, callVars>>
notDpll == <<cdclVars, lsVars, harnessVars, encoderVars, callVars>>
notLs == <<cdclVars, dpllVars, harnessVars, encoderVars, callVars>>
vars == <<text, cnf, cdclVars, dpllVars, lsVars, harnessVars, encoderVars, callVars>>

-----------------------------------------------------------------------------
(* Generic helpers                                                         *)

abs(x) == IF x < 0 THEN -x ELSE x

Put(f, k, v) == [x \in (DOMAIN f) \cup {k} |-> IF x = k THEN v ELSE f[x]]

Restrict(f, S) == [x \in S |-> f[x]]

Range(s) == {s[i] : i \in DOMAIN s}

Max(S) == CHOOSE x \in S : \A y \in S : y <= x

RECURSIVE Pow(_, _)
Pow(b, e) == IF e = 0 THEN 1 ELSE b * Pow(b, e - 1)

RECURSIVE Concat(_)
Concat(ss) == IF ss = <<>> THEN <<>> ELSE Head(ss) \o Concat(Tail(ss))

\* list.remove(x): drop the first occurrence of x, if any.
RemoveFirst(s, x) ==
    IF x \notin Range(s) THEN s
    ELSE LET i == CHOOSE j \in DOMAIN s : s[j] = x /\ \A k \in 1..(j - 1) : s[k] # x
         IN SubSeq(s, 1, i - 1) \o SubSeq(s, i + 1, Len(s))

-----------------------------------------------------------------------------
(* utils/cnf_parser.py                                                     *)

CommentLine == [kind |-> "c", toks |-> <<>>]
HeaderLine(nv, nc) == [kind |-> "p", toks |-> <<nv, nc>>]
ClauseLine(toks) == [kind |-> "l", toks |-> toks]

\* One pass of the reader's loop over the lines; acc is (num_vars,
\* num_clauses, clauses) so far.
RECURSIVE parse_lines(_, _)
parse_lines(lines, acc) ==
    IF lines = <<>> THEN acc
    ELSE LET line == Head(lines)
             rest == Tail(lines)
         IN IF line.kind = "c" THEN parse_lines(rest, acc)
            ELSE IF line.kind = "p"
                 THEN parse_lines(rest, [acc EXCEPT !.num_vars = line.toks[1],
                                                    !.num_clauses = line.toks[2]])
            ELSE LET literals == SelectSeq(line.toks, LAMBDA t : t # 0)
                 IN IF literals # <<>>
                    THEN parse_lines(rest, [acc EXCEPT !.clauses = Append(@, literals)])
                    ELSE parse_lines(rest, acc)

parse_dimacs(lines) ==
    LET r == parse_lines(lines, [num_vars |-> 0, num_clauses |-> 0, clauses |-> <<>>])
    IN IF r.num_clauses = 0 THEN [r EXCEPT !.num_clauses = Len(r.clauses)] ELSE r


-----------------------------------------------------------------------------
(* solvers/cdcl.py: data                                                   *)

NoClause == <<>>
NoVar == 0

\* decay = 0.95 = DecayNum / DecayDen.  Scores are kept exactly: the score of
\* v is state.vsids[v] / state.scale, scale being DecayDen to the number of
\* decays so far; heap entries are kept at the same scale.
DecayNum == 19
DecayDen == 20

restart_limit_init == 100
\* restart_multiplier = 1.5 = RestartMulNum / RestartMulDen
RestartMulNum == 3
RestartMulDen == 2

Get(d, k, default) == IF k \in DOMAIN d THEN d[k] ELSE default

\* value_of(literal, assignment): "None", "True" or "False".
value_of(literal, assignment) ==
    LET var == abs(literal)
    IN IF var \notin DOMAIN assignment THEN "None"
       ELSE IF (IF literal > 0 THEN assignment[var] ELSE ~assignment[var])
            THEN "True" ELSE "False"

add_watch(watches, literal, clause_idx) ==
    LET cur == Get(watches, literal, <<>>)
    IN Put(watches, literal,
           IF clause_idx \in Range(cur) THEN cur ELSE Append(cur, clause_idx))

remove_watch(watches, literal, clause_idx) ==
    IF Get(watches, literal, <<>>) = <<>> THEN watches
    ELSE Put(watches, literal, RemoveFirst(watches[literal], clause_idx))

update_watch(watches, clause_idx, old_literal, new_literal) ==
    add_watch(remove_watch(watches, old_literal, clause_idx), new_literal, clause_idx)

\* The two watched literals a clause starts with (initialize_state and
\* learn_clause agree on clauses of one literal and of two or more).
first_watches(clause) ==
    IF Len(clause) < 2 THEN <<clause[1], clause[1]>> ELSE <<clause[1], clause[2]>>

watch_clause(watches, clause, idx) ==
    LET w == first_watches(clause)
    IN add_watch(add_watch(watches, w[1], idx), w[2], idx)

RECURSIVE init_watches(_, _)
init_watches(formula, n) ==
    IF n = 0 THEN <<>>
    ELSE watch_clause(init_watches(formula, n - 1), formula[n], n)

\* PriorityQueue.  heap is the set of (score, var) entries: heappop takes the
\* entry least in (-score, var), that is of greatest score and then least var.
\* heappop on entries (-score, -var): of equal scores the greatest var first.
heap_top_greatest_var(heap) ==
    CHOOSE e \in heap : \A f \in heap :
        \/ e[1] > f[1]
        \/ (e[1] = f[1] /\ e[2] >= f[2])

heap_top(heap) ==
    CHOOSE e \in heap : \A f \in heap :
        \/ e[1] > f[1]
        \/ (e[1] = f[1] /\ e[2] <= f[2])

queue_push(queue, var, score) ==
    [heap |-> queue.heap \cup {<<score, var>>}, entries |-> Put(queue.entries, var, score)]

RECURSIVE queue_pop(_, _)
queue_pop(queue, assignment) ==
    IF queue.heap = {} THEN [var |-> NoVar, queue |-> queue]
    ELSE LET e == heap_top(queue.heap)
             q == [queue EXCEPT !.heap = @ \ {e}]
         IN IF e[2] \in DOMAIN assignment THEN queue_pop(q, assignment)
            ELSE IF e[2] \notin DOMAIN queue.entries \/ e[1] # queue.entries[e[2]]
                 THEN queue_pop(q, assignment)
            ELSE [var |-> e[2], queue |-> q]

\* Number of occurrences of variable v in the formula.
RECURSIVE occurrences(_, _)
occurrences(lits, v) ==
    IF lits = <<>> THEN 0
    ELSE (IF abs(Head(lits)) = v THEN 1 ELSE 0) + occurrences(Tail(lits), v)

initialize_state(formula) ==
    LET lits == Concat(formula)
        used == {abs(l) : l \in Range(lits)}
        vsids == [v \in used |-> occurrences(lits, v)]
    IN [formula |-> formula,
        assignment |-> <<>>,
        decision_levels |-> <<>>,
        reason |-> <<>>,
        level_literals |-> <<>>,
        watches |-> init_watches(formula, Len(formula)),
        watch_map |-> [i \in DOMAIN formula |-> first_watches(formula[i])],
        vsids |-> vsids,
        scale |-> 1,
        queue |-> [heap |-> {<<vsids[v], v>> : v \in used}, entries |-> vsids],
        phase |-> [v \in used |-> TRUE],
        decision_level |-> 0]

\* assign that records level 0 whatever the current decision level is.
assign_at_level_zero(s, lit, why) ==
    [s EXCEPT !.assignment = Put(@, abs(lit), lit > 0),
              !.phase = Put(@, abs(lit), lit > 0),
              !.decision_levels = Put(@, abs(lit), 0),
              !.reason = Put(@, abs(lit), why),
              !.level_literals = Append(@, lit)]

\* state with literal lit made true at the current decision level.
assign(s, lit, why) ==
    [s EXCEPT !.assignment = Put(@, abs(lit), lit > 0),
              !.phase = Put(@, abs(lit), lit > 0),
              !.decision_levels = Put(@, abs(lit), s.decision_level),
              !.reason = Put(@, abs(lit), why),
              !.level_literals = Append(@, lit)]

-----------------------------------------------------------------------------
(* solvers/cdcl.py: propagate                                              *)

\* replacement without its test "val is False: continue": a false literal
\* may become the new watch.
replacement_any_value(clause, w1, w2, assignment) ==
    LET ok == {i \in DOMAIN clause : clause[i] \notin {w1, w2}}
    IN IF ok = {} THEN 0 ELSE clause[CHOOSE i \in ok : \A j \in ok : i <= j]

\* The first literal of the clause, in clause order, that is not one of the
\* two watched literals and is not false; 0 when there is none.
replacement(clause, w1, w2, assignment) ==
    LET ok == {i \in DOMAIN clause :
                  /\ clause[i] \notin {w1, w2}
                  /\ value_of(clause[i], assignment) # "False"}
    IN IF ok = {} THEN 0 ELSE clause[CHOOSE i \in ok : \A j \in ok : i <= j]

\* propagate's two loops.  p = [state, conflicts, conflict]; queue is the
\* local work list (popped from its end), watchers the snapshot of
\* watches[opposite] still to visit.
RECURSIVE propagate_queue(_, _), propagate_watchers(_, _, _, _)
propagate_watchers(p, queue, watchers, opposite) ==
    IF watchers = <<>> THEN propagate_queue(p, queue)
    ELSE LET s == p.state
             clause_idx == Head(watchers)
             clause == s.formula[clause_idx]
             w1 == s.watch_map[clause_idx][1]
             w2 == s.watch_map[clause_idx][2]
             other == IF w1 = opposite THEN w2 ELSE w1
             candidate == replacement(clause, w1, w2, s.assignment)
         IN IF value_of(other, s.assignment) = "True"
            THEN propagate_watchers(p, queue, Tail(watchers), opposite)
            ELSE IF candidate # 0
            THEN propagate_watchers(
                     [p EXCEPT !.state.watch_map[clause_idx] =
                                   IF w1 = opposite THEN <<candidate, w2>>
                                                    ELSE <<w1, candidate>>,
                               !.state.watches =
                                   update_watch(@, clause_idx, opposite, candidate)],
                     queue, Tail(watchers), opposite)
            ELSE IF value_of(other, s.assignment) = "False"
            THEN [p EXCEPT !.conflicts = @ + 1, !.conflict = clause]
            ELSE propagate_watchers([p EXCEPT !.state = assign(s, other, clause)],
                                    Append(queue, other), Tail(watchers), opposite)

propagate_queue(p, queue) ==
    IF queue = <<>> THEN p
    ELSE LET literal == queue[Len(queue)]
             opposite == -literal
         IN propagate_watchers(p, SubSeq(queue, 1, Len(queue) - 1),
                               Get(p.state.watches, opposite, <<>>), opposite)

propagate(s, conflicts) ==
    propagate_queue([state |-> s, conflicts |-> conflicts, conflict |-> NoClause],
                    s.level_literals)

-----------------------------------------------------------------------------
(* solvers/cdcl.py: analyze_conflict, backtrack, learn_clause, decay       *)

level_of(s, lit, default) == Get(s.decision_levels, abs(lit), default)

count_curr_level(s, clause) ==
    Cardinality({i \in DOMAIN clause : level_of(s, clause[i], -1) = s.decision_level})

\* The pivot search of one iteration of the 1-UIP loop: the variable of the
\* latest trail literal that occurs in learned at the current level.
find_pivot(s, learned) ==
    LET hits == {i \in DOMAIN s.level_literals :
                    /\ \E j \in DOMAIN learned :
                           abs(learned[j]) = abs(s.level_literals[i])
                    /\ level_of(s, s.level_literals[i], -1) = s.decision_level}
    IN IF hits = {} THEN NoVar ELSE abs(s.level_literals[Max(hits)])

\* resolve's first loop, over the clause.
RECURSIVE resolve_clause(_, _, _)
resolve_clause(lits, pivot_var, resolvent) ==
    IF lits = <<>> THEN resolvent
    ELSE LET lit == Head(lits)
         IN IF abs(lit) = pivot_var \/ -lit \in Range(resolvent) \/ lit \in Range(resolvent)
            THEN resolve_clause(Tail(lits), pivot_var, resolvent)
            ELSE resolve_clause(Tail(lits), pivot_var, Append(resolvent, lit))

\* resolve's second loop, over the reason.  present and the resolvent hold
\* the same literals throughout, so membership in the resolvent stands for
\* membership in present.
RECURSIVE resolve_reason(_, _, _)
resolve_reason(lits, pivot_var, resolvent) ==
    IF lits = <<>> THEN resolvent
    ELSE LET lit == Head(lits)
         IN IF abs(lit) = pivot_var
            THEN resolve_reason(Tail(lits), pivot_var, resolvent)
            ELSE IF -lit \in Range(resolvent)
            THEN resolve_reason(Tail(lits), pivot_var, RemoveFirst(resolvent, -lit))
            ELSE IF lit \in Range(resolvent)
            THEN resolve_reason(Tail(lits), pivot_var, resolvent)
            ELSE resolve_reason(Tail(lits), pivot_var, Append(resolvent, lit))

\* resolve without its second loop: the literals of the reason are left
\* out (where that leaves the resolvent a literal).
resolve_without_reason(s, clause, pivot_var) ==
    LET reason == Get(s.reason, pivot_var, NoClause)
        first == resolve_clause(clause, pivot_var, <<>>)
    IN IF reason = <<>> THEN clause
       ELSE IF first = <<>> THEN resolve_reason(reason, pivot_var, first)
       ELSE first

resolve(s, clause, pivot_var) ==
    LET reason == Get(s.reason, pivot_var, NoClause)
    IN IF reason = <<>> THEN clause
       ELSE resolve_reason(reason, pivot_var, resolve_clause(clause, pivot_var, <<>>))

\* backjump_level without the test "lvl != state.decision_level".
backjump_level_any_level(s, learned) ==
    LET lvls == {level_of(s, learned[i], 0) : i \in DOMAIN learned}
        above == {l \in lvls : l > 0}
    IN IF above = {} THEN 0 ELSE Max(above)

backjump_level(s, learned) ==
    LET lvls == {level_of(s, learned[i], 0) : i \in DOMAIN learned}
        below == {l \in lvls : l # s.decision_level /\ l > 0}
    IN IF below = {} THEN 0 ELSE Max(below)

\* backtrack that forgets to pop the removed variables from the assignment.
backtrack_keep_assignment(s, level) ==
    LET keep == {v \in DOMAIN s.decision_levels : s.decision_levels[v] <= level}
        dl == Restrict(s.decision_levels, keep)
    IN [s EXCEPT !.decision_levels = dl,
                 !.reason = Restrict(@, (DOMAIN @) \cap keep),
                 !.decision_level = level,
                 !.level_literals =
                     SelectSeq(@, LAMBDA lit : Get(dl, abs(lit), -1) = level)]

backtrack(s, level) ==
    LET keep == {v \in DOMAIN s.decision_levels : s.decision_levels[v] <= level}
        dl == Restrict(s.decision_levels, keep)
    IN [s EXCEPT !.assignment = Restrict(@, (DOMAIN @) \cap keep),
                 !.decision_levels = dl,
                 !.reason = Restrict(@, (DOMAIN @) \cap keep),
                 !.decision_level = level,
                 !.level_literals =
                     SelectSeq(@, LAMBDA lit : Get(dl, abs(lit), -1) = level)]

RECURSIVE bump(_, _)
bump(s, lits) ==
    IF lits = <<>> THEN s
    ELSE LET var == abs(Head(lits))
             score == Get(s.vsids, var, 0) + s.scale
         IN bump([s EXCEPT !.vsids = Put(@, var, score),
                           !.queue = queue_push(@, var, score)],
                 Tail(lits))

\* learn_clause that stores only the first literal of the learned clause.
learn_clause_truncated(s, clause) ==
    LET idx == Len(s.formula) + 1
        c == SubSeq(clause, 1, 1)
    IN bump([s EXCEPT !.formula = Append(@, c),
                      !.watch_map = Put(@, idx, first_watches(c)),
                      !.watches = watch_clause(@, c, idx)],
            clause)

learn_clause(s, clause) ==
    LET idx == Len(s.formula) + 1
    IN bump([s EXCEPT !.formula = Append(@, clause),
                      !.watch_map = Put(@, idx, first_watches(clause)),
                      !.watches = watch_clause(@, clause, idx)],
            clause)

decay_scores(s) ==
    LET vs == [v \in DOMAIN s.vsids |-> s.vsids[v] * DecayNum]
    IN [s EXCEPT !.vsids = vs,
                 !.scale = @ * DecayDen,
                 !.queue = [heap |-> {<<e[1] * DecayDen, e[2]>> : e \in s.queue.heap}
                                        \cup {<<vs[v], v>> : v \in DOMAIN vs},
                            entries |-> [v \in (DOMAIN s.queue.entries) \cup (DOMAIN vs) |->
                                            IF v \in DOMAIN vs THEN vs[v]
                                            ELSE s.queue.entries[v] * DecayDen]]]

select_branch_literal(s) ==
    LET r == queue_pop(s.queue, s.assignment)
    IN [literal |-> IF r.var = NoVar THEN 0
                    ELSE IF Get(s.phase, r.var, TRUE) THEN r.var ELSE -r.var,
        queue |-> r.queue]

\* The first literal of the clause at the current decision level (0: none).
asserting_literal(s, clause) ==
    LET at == {i \in DOMAIN clause : level_of(s, clause[i], -1) = s.decision_level}
    IN IF at = {} THEN 0 ELSE clause[CHOOSE i \in at : \A j \in at : i <= j]

-----------------------------------------------------------------------------
(* Inputs                                                                  *)

\* Bounds of the exhaustively enumerated inputs: the variables are
\* 1..NumVars and a formula has at most MaxLits literal occurrences in all.
NumVars == 2
MaxLits == 3
\* Bound of the family of "filler" formulas below.
MaxFillers == 3

Lits(n) == {l \in (-n)..n : l # 0}

\* Every formula of exactly n literal occurrences over the literals L: the
\* last clause of such a formula has k literals, 1 <= k <= n, and what comes
\* before it is a formula of n - k occurrences.  Repeated and complementary
\* literals in a clause are included (the reader accepts both).
RECURSIVE ClausesOfLen(_, _), FormulasOfSize(_, _)
ClausesOfLen(L, k) ==
    IF k = 0 THEN {<<>>} ELSE {Append(c, l) : c \in ClausesOfLen(L, k - 1), l \in L}

FormulasOfSize(L, n) ==
    IF n = 0 THEN {<<>>}
    ELSE UNION {{Append(f, c) : f \in FormulasOfSize(L, n - k), c \in ClausesOfLen(L, k)} :
                k \in 1..n}

SmallFormulas == UNION {FormulasOfSize(Lits(NumVars), n) : n \in 0..MaxLits}

\* The scenarios of the specification's section 8.
TrivialSat == << <<1>> >>
TrivialUnsat == << <<1>>, <<-1>> >>
XorLike == << <<1, 2>>, <<-1, -2>>, <<1, -2>>, <<-1, 2>> >>
\* 3 pigeons, 2 holes: variable 2 * (p - 1) + h is "pigeon p sits in hole h".
Pigeonhole ==
    << <<1, 2>>, <<3, 4>>, <<5, 6>>,
       <<-1, -3>>, <<-1, -5>>, <<-3, -5>>,
       <<-2, -4>>, <<-2, -6>>, <<-4, -6>> >>

\* Two clauses that conflict once variables 1 and f + 2 are both true, and f
\* filler variables 2..f+1 in between that occur as often and are decided
\* before f + 2.
FillerClause(f) == [i \in 1..f |-> i + 1]
Fillers(f) ==
    << <<-1, -(f + 2), f + 3>>, <<-1, -(f + 2), -(f + 3)>> >>
    \o (IF f = 0 THEN <<>> ELSE <<FillerClause(f), FillerClause(f)>>)

\* Two formulas on which the CDCL search meets several conflicts: the first
\* is satisfiable and is solved after two conflicts, the second is
\* unsatisfiable and is refuted at the third.
TwoConflicts == << <<-1, -2>>, <<3, 2>>, <<-1, -3>>, <<1, 2, -3>> >>
ThreeConflicts ==
    << <<1, -3>>, <<1, -2>>, <<-3, 2, -1>>, <<-3, -2, -1>>, <<-1, 3, -2>>, <<3, 2>> >>

\* A formula whose clauses repeat a literal, on which no unit and no pure
\* literal exists.
RepeatedLiterals == << <<1, 1, 1>>, <<2, -1>>, <<-2, -2, -2>> >>

\* A formula on which the CDCL search, having decided 1 and then 2, meets a
\* conflict whose analysis resolves with a reason that brings in a literal
\* of the lower level.
ReasonLiterals == << <<-2, 3>>, <<-1, -2, 4>>, <<-3, -4>>, <<1, 5>>, <<1, -5>> >>

Scenarios ==
    {TrivialSat, TrivialUnsat, XorLike, Pigeonhole, TwoConflicts, ThreeConflicts,
     RepeatedLiterals, ReasonLiterals}
    \cup {Fillers(f) : f \in 0..MaxFillers}

Formulas == SmallFormulas \cup Scenarios

NumVarsOf(formula) == Max({0} \cup {abs(l) : l \in Range(Concat(formula))})

\* The DIMACS text of a formula: the header and one clause per line, each
\* ended by 0.
TextOf(formula) ==
    <<HeaderLine(NumVarsOf(formula), Len(formula))>>
    \o [i \in DOMAIN formula |-> ClauseLine(Append(formula[i], 0))]

\* The same text with the empty clause (a lone 0) as its last line.
WithEmptyClause(lines) == Append(lines, ClauseLine(<<0>>))

Texts ==
    {TextOf(f) : f \in Formulas} \cup {WithEmptyClause(TextOf(f)) : f \in Scenarios}

-----------------------------------------------------------------------------
(* The variables of a solver that is not the one running                   *)

NotRun(solver) == [solver |-> solver, status |-> ""]

DpllUnused ==
    /\ frames = <<>>
    /\ dstats = [decisions |-> 0, unit_propagations |-> 0, pure_eliminations |-> 0]
    /\ dresult = NotRun("dpll_jw")

\* --seed absent (None).
NoSeed == -1

\* The generator a process starts with, seeded from the system's entropy:
\* pos is the number of draws made since seeding.
fresh_generator == [seed |-> NoSeed, pos |-> 0]

\* known[i] is the outcome of draw base + i of the seed's stream.
NothingDrawn == [base |-> 0, known |-> <<>>]

LsUnused ==
    /\ ls = <<>>
    /\ rng = <<>>
    /\ stream = NothingDrawn
    /\ turn = 0
    /\ lresults = <<>>

HarnessUnused == harness = <<>>

\* No file (yet), no clauses to write: neither is a file or a list of
\* clauses of non-zero literals.
NoFile == << <<"no file">> >>
NoListing == << <<0>> >>

EncoderUnused ==
    /\ puzzle = <<>>
    /\ listing = NoListing
    /\ file = NoFile

CallUnused == call = <<>>

-----------------------------------------------------------------------------
(* solvers/cdcl.py: run_solver and cdcl                                    *)

Running == [solver |-> "cdcl", status |-> ""]

\* cdcl_result reporting 0 conflicts, as the two early returns do.
cdcl_result_zero_conflicts(status, st, s, assignment) ==
    [solver |-> "cdcl", status |-> status,
     decisions |-> st.decisions, conflicts |-> 0,
     learned_clauses |-> st.learned_clauses, restarts |-> st.restarts,
     assignment |-> assignment, num_clauses |-> Len(s.formula)]

cdcl_result(status, st, s, assignment) ==
    [solver |-> "cdcl", status |-> status,
     decisions |-> st.decisions, conflicts |-> st.conflicts,
     learned_clauses |-> st.learned_clauses, restarts |-> st.restarts,
     assignment |-> assignment, num_clauses |-> Len(s.formula)]

NoStats == [decisions |-> 0, conflicts |-> 0, learned_clauses |-> 0, restarts |-> 0]

Idle == [pc |-> "start", restart_limit |-> restart_limit_init,
         conflicts_since_restart |-> 0, learned |-> NoClause, pivot_var |-> NoVar]

\* run_solver's loop over the clauses of one literal, from clause i on:
\* [state, clash], clash when a unit contradicts an earlier one.
RECURSIVE assign_units(_, _)
assign_units(s, i) ==
    IF i > Len(s.formula) THEN [state |-> s, clash |-> FALSE]
    ELSE LET clause == s.formula[i]
         IN IF Len(clause) # 1 THEN assign_units(s, i + 1)
            ELSE IF value_of(clause[1], s.assignment) = "False"
                 THEN [state |-> s, clash |-> TRUE]
            ELSE IF value_of(clause[1], s.assignment) = "True"
                 THEN assign_units(s, i + 1)
            ELSE assign_units(assign(s, clause[1], NoClause), i + 1)

CdclUnused ==
    /\ state = initialize_state(<<>>)
    /\ stats = NoStats
    /\ ctl = Idle
    /\ result = Running

NothingRead == [num_vars |-> 0, num_clauses |-> 0, clauses |-> <<>>]

CdclInit ==
    /\ text \in Texts
    /\ cnf = NothingRead
    /\ CdclUnused
    /\ DpllUnused
    /\ LsUnused
    /\ HarnessUnused
    /\ EncoderUnused
    /\ CallUnused

\* run_solver, lines 302-304: read the file and build the state.
Start ==
    /\ ctl.pc = "start"
    /\ cnf' = parse_dimacs(text)
    /\ state' = initialize_state(cnf'.clauses)
    /\ ctl' = [ctl EXCEPT !.pc = "units"]
    /\ UNCHANGED <<notCdcl, text, stats, result>>

\* run_solver, lines 306-328.
AssignUnits ==
    /\ ctl.pc = "units"
    /\ LET r == assign_units(state, 1)
       IN /\ state' = r.state
          /\ IF r.clash
             THEN /\ result' = cdcl_result("UNSAT", NoStats, r.state, <<>>)
                  /\ ctl' = [ctl EXCEPT !.pc = "done"]
             ELSE /\ result' = result
                  /\ ctl' = [ctl EXCEPT !.pc = "propagate0"]
    /\ UNCHANGED <<notCdcl, text, cnf, stats>>

\* run_solver, lines 330-340.
InitialPropagate ==
    /\ ctl.pc = "propagate0"
    /\ LET p == propagate(state, stats.conflicts)
       IN /\ state' = p.state
          /\ stats' = [stats EXCEPT !.conflicts = p.conflicts]
          /\ IF p.conflict # NoClause
             THEN /\ result' = cdcl_result("UNSAT", NoStats, p.state, <<>>)
                  /\ ctl' = [ctl EXCEPT !.pc = "done"]
             ELSE /\ result' = result
                  /\ ctl' = [ctl EXCEPT !.pc = "propagate"]
    /\ UNCHANGED <<notCdcl, text, cnf>>

\* cdcl, lines 259-265: propagate; on a conflict count it and either give up
\* at level 0 or enter analyze_conflict.
Propagate ==
    /\ ctl.pc = "propagate"
    /\ LET p == propagate(state, stats.conflicts)
       IN /\ state' = p.state
          /\ IF p.conflict # NoClause
             THEN LET st == [stats EXCEPT !.conflicts = p.conflicts + 1]
                  IN /\ stats' = st
                     /\ IF p.state.decision_level = 0
                        THEN /\ result' = cdcl_result("UNSAT", st, p.state, <<>>)
                             /\ ctl' = [ctl EXCEPT !.pc = "done",
                                                   !.conflicts_since_restart = @ + 1]
                        ELSE /\ result' = result
                             /\ ctl' = [ctl EXCEPT !.pc = "analyze",
                                                   !.conflicts_since_restart = @ + 1,
                                                   !.learned = p.conflict,
                                                   !.pivot_var = NoVar]
             ELSE /\ stats' = [stats EXCEPT !.conflicts = p.conflicts]
                  /\ result' = result
                  /\ ctl' = [ctl EXCEPT !.pc = "decide"]
    /\ UNCHANGED <<notCdcl, text, cnf>>

\* analyze_conflict, lines 199-207: the loop test and the pivot search.
FindPivot ==
    /\ ctl.pc = "analyze"
    /\ count_curr_level(state, ctl.learned) > 1
    /\ LET pivot_var == find_pivot(state, ctl.learned)
       IN ctl' = [ctl EXCEPT !.pivot_var = pivot_var,
                             !.pc = IF pivot_var = NoVar THEN "learn" ELSE "resolve"]
    /\ UNCHANGED <<notCdcl, text, cnf, state, stats, result>>

\* analyze_conflict, line 208, and back to the loop test (line 200 clears
\* pivot_var).
Resolve ==
    /\ ctl.pc = "resolve"
    /\ ctl' = [ctl EXCEPT !.learned = resolve(state, ctl.learned, ctl.pivot_var),
                          !.pivot_var = NoVar,
                          !.pc = "analyze"]
    /\ UNCHANGED <<notCdcl, text, cnf, state, stats, result>>

\* The same with the asserting literal looked for after backtrack, when no
\* variable is at the level the conflict was found at any more.
LearnAndBackjump_asserting_after_backtrack ==
    /\ IF ctl.pc = "analyze" THEN count_curr_level(state, ctl.learned) <= 1
                             ELSE ctl.pc = "learn"
    /\ LET clause == ctl.learned
           backjump == backjump_level(state, clause)
           s1 == learn_clause(state, clause)
           asserting == asserting_literal(backtrack(s1, backjump), clause)
           s3 == decay_scores(backtrack(s1, backjump))
           s4 == IF asserting # 0 THEN assign(s3, asserting, clause) ELSE s3
           restart == ctl.conflicts_since_restart >= ctl.restart_limit
       IN /\ state' = IF restart THEN backtrack(s4, 0) ELSE s4
          /\ stats' = [stats EXCEPT !.learned_clauses = @ + 1,
                                    !.restarts = IF restart THEN @ + 1 ELSE @]
          /\ ctl' = [ctl EXCEPT
                        !.pc = "propagate",
                        !.learned = NoClause,
                        !.conflicts_since_restart = IF restart THEN 0 ELSE @,
                        !.restart_limit =
                            IF restart THEN (@ * RestartMulNum) \div RestartMulDen ELSE @]
    /\ UNCHANGED <<notCdcl, text, cnf, result>>

\* The same with the restart taken only once the count has passed the limit.
LearnAndBackjump_restart_late ==
    /\ IF ctl.pc = "analyze" THEN count_curr_level(state, ctl.learned) <= 1
                             ELSE ctl.pc = "learn"
    /\ LET clause == ctl.learned
           backjump == backjump_level(state, clause)
           s1 == learn_clause(state, clause)
           asserting == asserting_literal(s1, clause)
           s3 == decay_scores(backtrack(s1, backjump))
           s4 == IF asserting # 0 THEN assign(s3, asserting, clause) ELSE s3
           restart == ctl.conflicts_since_restart > ctl.restart_limit
       IN /\ state' = IF restart THEN backtrack(s4, 0) ELSE s4
          /\ stats' = [stats EXCEPT !.learned_clauses = @ + 1,
                                    !.restarts = IF restart THEN @ + 1 ELSE @]
          /\ ctl' = [ctl EXCEPT
                        !.pc = "propagate",
                        !.learned = NoClause,
                        !.conflicts_since_restart = IF restart THEN 0 ELSE @,
                        !.restart_limit =
                            IF restart THEN (@ * RestartMulNum) \div RestartMulDen ELSE @]
    /\ UNCHANGED <<notCdcl, text, cnf, result>>

\* analyze_conflict, lines 210-215, and cdcl, lines 266-288: learn the clause,
\* backjump, decay, assert, and restart when due.
LearnAndBackjump ==
    /\ IF ctl.pc = "analyze" THEN count_curr_level(state, ctl.learned) <= 1
                             ELSE ctl.pc = "learn"
    /\ LET clause == ctl.learned
           backjump == backjump_level(state, clause)
           s1 == learn_clause(state, clause)
           asserting == asserting_literal(s1, clause)
           s3 == decay_scores(backtrack(s1, backjump))
           s4 == IF asserting # 0 THEN assign(s3, asserting, clause) ELSE s3
           restart == ctl.conflicts_since_restart >= ctl.restart_limit
       IN /\ state' = IF restart THEN backtrack(s4, 0) ELSE s4
          /\ stats' = [stats EXCEPT !.learned_clauses = @ + 1,
                                    !.restarts = IF restart THEN @ + 1 ELSE @]
          /\ ctl' = [ctl EXCEPT
                        !.pc = "propagate",
                        !.learned = NoClause,
                        !.conflicts_since_restart = IF restart THEN 0 ELSE @,
                        !.restart_limit =
                            IF restart THEN (@ * RestartMulNum) \div RestartMulDen ELSE @]
    /\ UNCHANGED <<notCdcl, text, cnf, result>>

\* cdcl, lines 289-299: return SAT when the queue yields no variable, decide
\* otherwise.
Decide ==
    /\ ctl.pc = "decide"
    /\ LET r == select_branch_literal(state)
           s1 == [state EXCEPT !.queue = r.queue]
       IN IF r.literal = 0
          THEN /\ state' = s1
               /\ stats' = stats
               /\ result' = cdcl_result("SAT", stats, s1, s1.assignment)
               /\ ctl' = [ctl EXCEPT !.pc = "done"]
          ELSE /\ state' = assign([s1 EXCEPT !.decision_level = @ + 1], r.literal, NoClause)
               /\ stats' = [stats EXCEPT !.decisions = @ + 1]
               /\ result' = result
               /\ ctl' = [ctl EXCEPT !.pc = "propagate"]
    /\ UNCHANGED <<notCdcl, text, cnf>>

CdclNext ==
    \/ Start
    \/ AssignUnits
    \/ InitialPropagate
    \/ Propagate
    \/ FindPivot
    \/ Resolve
    \/ LearnAndBackjump
    \/ Decide

Init == CdclInit

Next == CdclNext

Spec == Init /\ [][Next]_vars


-----------------------------------------------------------------------------
(* Properties of the CDCL run                                              *)

\* clause has a literal made true by the (partial) assignment.
SatisfiedBy(clause, assignment) ==
    \E i \in DOMAIN clause : value_of(clause[i], assignment) = "True"

\* Some total assignment of the variables 1..n (T: the true ones) satisfies
\* every clause.
Satisfiable(clauses, n) ==
    \E T \in SUBSET (1..n) :
        \A i \in DOMAIN clauses :
            \E j \in DOMAIN clauses[i] :
                IF clauses[i][j] > 0 THEN clauses[i][j] \in T ELSE -clauses[i][j] \notin T

\* A line that is the empty clause: a lone terminating 0.
HasEmptyClause(lines) ==
    \E i \in DOMAIN lines : lines[i].kind = "l" /\ lines[i].toks = <<0>>

\* C1: when the CDCL run returns SAT, every clause of the formula it was
\* given (the clauses read from the file, before any learning) has a literal
\* that the returned assignment makes true.
C1_CdclSatSound ==
    result.status = "SAT" =>
        \A i \in DOMAIN cnf.clauses : SatisfiedBy(cnf.clauses[i], result.assignment)

\* A SAT answer reached after a conflict, a learned clause and a backjump.
C1_Witness ==
    /\ result.status = "SAT"
    /\ result.learned_clauses > 0
    /\ cnf.clauses # <<>>

C6_CdclTerminates == [][Resolve => ctl'.learned # ctl.learned]_vars

\* C8: a file that contains the empty clause is reported UNSAT, by the CDCL
\* run and by the DPLL run.
C8_EmptyClauseUnsat ==
    HasEmptyClause(text) =>
        /\ result.status # "" => result.status = "UNSAT"
        /\ dresult.status # "" => dresult.status = "UNSAT"

\* C9 as stated: decisions <= num_vars * (restarts + 1) + conflicts at the end
\* of a run.
C9_DecisionBound ==
    result.status \in {"SAT", "UNSAT"} =>
        result.decisions <= cnf.num_vars * (result.restarts + 1) + result.conflicts

\* C9 as amended: at the end of a run, decisions <= num_vars * (restarts + 1
\* + conflicts): a conflict may undo, and so cause to be repeated, as many
\* decisions as there are variables.
C9_DecisionBoundAmended ==
    result.status \in {"SAT", "UNSAT"} =>
        result.decisions <= cnf.num_vars * (result.restarts + 1 + result.conflicts)

\* A finished run that repeated decisions after a backjump over several
\* levels.
C9_Witness ==
    /\ result.status = "SAT"
    /\ result.conflicts > 0
    /\ result.decisions > cnf.num_vars

-----------------------------------------------------------------------------
(* solvers/dpll_jw.py                                                      *)

\* assign_literal that takes a clause holding the opposite literal for
\* satisfied as well.
assign_literal_either_polarity(clauses, assignment, literal) ==
    [clauses |-> SelectSeq(clauses, LAMBDA clause :
                               literal \notin Range(clause) /\ -literal \notin Range(clause)),
     conflict |-> FALSE,
     assignment |-> Put(assignment, abs(literal), literal > 0)]

\* assign_literal that takes out the first -literal of a clause only.
assign_literal_first_occurrence(clauses, assignment, literal) ==
    LET var == abs(literal)
        value == literal > 0
    IN IF var \in DOMAIN assignment /\ assignment[var] # value
       THEN [clauses |-> clauses, conflict |-> TRUE, assignment |-> assignment]
       ELSE LET assigned == Put(assignment, var, value)
                kept == SelectSeq(clauses, LAMBDA clause : literal \notin Range(clause))
                updated == [i \in DOMAIN kept |-> RemoveFirst(kept[i], -literal)]
            IN IF \E i \in DOMAIN updated : updated[i] = <<>>
               THEN [clauses |-> clauses, conflict |-> TRUE, assignment |-> assigned]
               ELSE [clauses |-> updated, conflict |-> FALSE, assignment |-> assigned]

\* [clauses, conflict, assignment]: the pair assign_literal returns and the
\* assignment dict as the call leaves it (the dict is updated in place, also
\* when a clause then reduces to nothing).
assign_literal(clauses, assignment, literal) ==
    LET var == abs(literal)
        value == literal > 0
    IN IF var \in DOMAIN assignment /\ assignment[var] # value
       THEN [clauses |-> clauses, conflict |-> TRUE, assignment |-> assignment]
       ELSE LET assigned == Put(assignment, var, value)
                kept == SelectSeq(clauses, LAMBDA clause : literal \notin Range(clause))
                updated == [i \in DOMAIN kept |->
                               SelectSeq(kept[i], LAMBDA lit : lit # -literal)]
            IN IF \E i \in DOMAIN updated : updated[i] = <<>>
               THEN [clauses |-> clauses, conflict |-> TRUE, assignment |-> assigned]
               ELSE [clauses |-> updated, conflict |-> FALSE, assignment |-> assigned]

\* The scan of one clause that unit_propagate, pure_literal_elimination and
\* pick_literal share: the literals of unassigned variables met before the
\* first true literal, and whether a true literal was met.
RECURSIVE scan_clause(_, _, _, _)
scan_clause(clause, assignment, i, undecided) ==
    IF i > Len(clause) THEN [undecided |-> undecided, satisfied |-> FALSE]
    ELSE LET val == value_of(clause[i], assignment)
         IN IF val = "None"
            THEN scan_clause(clause, assignment, i + 1, Append(undecided, clause[i]))
            ELSE IF val = "True" THEN [undecided |-> undecided, satisfied |-> TRUE]
            ELSE scan_clause(clause, assignment, i + 1, undecided)

scan(clause, assignment) == scan_clause(clause, assignment, 1, <<>>)

\* unit_propagate, lines 47-64, from clause i on: "conflict", a unit literal,
\* or 0 (None).
RECURSIVE find_unit(_, _, _)
find_unit(current, assignment, i) ==
    IF i > Len(current) THEN [conflict |-> FALSE, unit_literal |-> 0]
    ELSE LET s == scan(current[i], assignment)
         IN IF s.satisfied THEN find_unit(current, assignment, i + 1)
            ELSE IF s.undecided = <<>> THEN [conflict |-> TRUE, unit_literal |-> 0]
            ELSE IF Len(s.undecided) = 1
                 THEN [conflict |-> FALSE, unit_literal |-> s.undecided[1]]
            ELSE find_unit(current, assignment, i + 1)

\* [clauses, conflict, assignment, unit_propagations]
RECURSIVE unit_propagate(_, _, _)
unit_propagate(current, assignment, unit_propagations) ==
    LET f == find_unit(current, assignment, 1)
    IN IF f.conflict
       THEN [clauses |-> current, conflict |-> TRUE, assignment |-> assignment,
             unit_propagations |-> unit_propagations]
       ELSE IF f.unit_literal = 0
       THEN [clauses |-> current, conflict |-> FALSE, assignment |-> assignment,
             unit_propagations |-> unit_propagations]
       ELSE LET a == assign_literal(current, assignment, f.unit_literal)
            IN IF a.conflict
               THEN [clauses |-> a.clauses, conflict |-> TRUE,
                     assignment |-> a.assignment,
                     unit_propagations |-> unit_propagations + 1]
               ELSE unit_propagate(a.clauses, a.assignment, unit_propagations + 1)

\* The keys of a dict in insertion order: the first occurrences in s.
RECURSIVE first_occurrences(_, _)
first_occurrences(s, acc) ==
    IF s = <<>> THEN acc
    ELSE first_occurrences(Tail(s),
                           IF Head(s) \in Range(acc) THEN acc ELSE Append(acc, Head(s)))

\* The keys of literal_counts (lines 73-85) and of scores (lines 98-111).
counted_literals(clauses, assignment) ==
    first_occurrences(
        Concat([i \in DOMAIN clauses |-> scan(clauses[i], assignment).undecided]), <<>>)

\* pure_literal_elimination, lines 90-95, over the pure literals from i on.
RECURSIVE eliminate(_, _, _, _)
eliminate(r, pure_literals, i, pure_eliminations) ==
    IF i > Len(pure_literals) THEN [r EXCEPT !.pure_eliminations = pure_eliminations]
    ELSE LET a == assign_literal(r.clauses, r.assignment, pure_literals[i])
             next == [clauses |-> a.clauses, conflict |-> a.conflict,
                      assignment |-> a.assignment,
                      pure_eliminations |-> pure_eliminations + 1]
         IN IF a.conflict THEN next
            ELSE eliminate(next, pure_literals, i + 1, pure_eliminations + 1)

\* [clauses, conflict, assignment, pure_eliminations]: one pass.
pure_literal_elimination(clauses, assignment, pure_eliminations) ==
    LET counted == counted_literals(clauses, assignment)
        pure_literals == SelectSeq(counted, LAMBDA lit : -lit \notin Range(counted))
    IN eliminate([clauses |-> clauses, conflict |-> FALSE, assignment |-> assignment,
                  pure_eliminations |-> pure_eliminations],
                 pure_literals, 1, pure_eliminations)

RECURSIVE SumSeq(_)
SumSeq(s) == IF s = <<>> THEN 0 ELSE Head(s) + SumSeq(Tail(s))

\* The Jeroslow-Wang weight 2^-len(clause) of line 100, as the integer
\* 2^(longest - len(clause)), longest the length of the longest clause: the
\* weights are binary fractions that the floats add without rounding, so the
\* order of the sums is that of the integers.
jw_score(clauses, assignment, lit) ==
    LET longest == Max({0} \cup {Len(clauses[i]) : i \in DOMAIN clauses})
    IN SumSeq([i \in DOMAIN clauses |->
                  Cardinality({j \in DOMAIN scan(clauses[i], assignment).undecided :
                                  scan(clauses[i], assignment).undecided[j] = lit})
                  * Pow(2, longest - Len(clauses[i]))])

\* pick_literal: the first literal, in insertion order, of the highest
\* score; 0 when max() is given no score (ValueError).  The loop of lines
\* 113-116 runs only when no literal of an unassigned variable was scanned,
\* and then finds none before a true literal; a literal after one it returns.
pick_literal(clauses, assignment) ==
    LET keys == counted_literals(clauses, assignment)
        best == Max({jw_score(clauses, assignment, keys[i]) : i \in DOMAIN keys})
        unassigned == SelectSeq(Concat(clauses),
                                LAMBDA lit : abs(lit) \notin DOMAIN assignment)
    IN IF keys # <<>>
       THEN keys[CHOOSE i \in DOMAIN keys :
                    /\ jw_score(clauses, assignment, keys[i]) = best
                    /\ \A j \in 1..(i - 1) : jw_score(clauses, assignment, keys[j]) < best]
       ELSE IF unassigned # <<>> THEN unassigned[1]
       ELSE 0

\* A loop that tries True only.
branch_values_true_only == <<TRUE>>

\* The values the loop of line 130 tries, in its order.
branch_values == <<TRUE, FALSE>>

\* A call of dpll that has just been entered, and one inside its loop.
entered(clauses, assignment) ==
    [pc |-> "enter", clauses |-> clauses, current |-> <<>>,
     assignment |-> assignment, var |-> NoVar, value |-> 0]

branching(f, current, assignment, literal) ==
    [f EXCEPT !.pc = "branch", !.current = current, !.assignment = assignment,
              !.var = abs(literal), !.value = 1]

dpll_result(sat, st, assignment) ==
    [solver |-> "dpll_jw", status |-> IF sat THEN "SAT" ELSE "UNSAT",
     decisions |-> st.decisions, unit_propagations |-> st.unit_propagations,
     pure_eliminations |-> st.pure_eliminations,
     assignment |-> IF sat THEN assignment ELSE <<>>,
     num_vars |-> cnf.num_vars, num_clauses |-> cnf.num_clauses]

top == frames[Len(frames)]
callers == SubSeq(frames, 1, Len(frames) - 1)

DpllInit == CdclInit

\* run_solver, lines 143-145: read the file and call dpll on a copy of the
\* clauses with an empty assignment.
DpllStart ==
    /\ frames = <<>>
    /\ dresult.status = ""
    /\ cnf' = parse_dimacs(text)
    /\ frames' = <<entered(cnf'.clauses, <<>>)>>
    /\ UNCHANGED <<notDpll, text, dstats, dresult>>

\* dpll returns (True, assignment): every caller returns it at once (lines
\* 138-139), and run_solver builds its record.
ReturnTrue(st, assignment) ==
    /\ frames' = <<>>
    /\ dresult' = dpll_result(TRUE, st, assignment)

\* dpll returns (False, assignment): the caller goes on with its loop, or
\* run_solver builds its record.
ReturnFalse(st) ==
    /\ frames' = callers
    /\ dresult' = IF callers = <<>> THEN dpll_result(FALSE, st, <<>>) ELSE dresult

\* dpll, lines 120-129: propagate units, eliminate pure literals, and return
\* or pick the branching variable.
DpllEnter ==
    /\ frames # <<>>
    /\ top.pc = "enter"
    /\ LET u == unit_propagate(top.clauses, top.assignment, dstats.unit_propagations)
           e == pure_literal_elimination(u.clauses, u.assignment,
                                         dstats.pure_eliminations)
           st == [dstats EXCEPT
                     !.unit_propagations = u.unit_propagations,
                     !.pure_eliminations =
                         IF u.conflict THEN @ ELSE e.pure_eliminations]
       IN /\ dstats' = st
          /\ IF u.conflict \/ e.conflict THEN ReturnFalse(st)
             ELSE IF e.clauses = <<>> THEN ReturnTrue(st, e.assignment)
             ELSE /\ frames' = Append(callers,
                                      branching(top, e.clauses, e.assignment,
                                                pick_literal(e.clauses, e.assignment)))
                  /\ dresult' = dresult
    /\ UNCHANGED <<notDpll, text, cnf>>

\* The round with the assignment of line 134 made in the caller's dict
\* instead of a copy.
DpllBranch_shared_assignment ==
    /\ frames # <<>>
    /\ top.pc = "branch"
    /\ top.value <= Len(branch_values)
    /\ LET trial_literal == IF branch_values[top.value] THEN top.var ELSE -top.var
           a == assign_literal(top.current, top.assignment, trial_literal)
           here == [top EXCEPT !.value = @ + 1, !.assignment = a.assignment]
       IN frames' = IF a.conflict THEN Append(callers, here)
                    ELSE Append(callers, here) \o <<entered(a.clauses, a.assignment)>>
    /\ dstats' = [dstats EXCEPT !.decisions = @ + 1]
    /\ UNCHANGED <<notDpll, text, cnf, dresult>>

\* dpll, lines 130-137: one round of the loop: count a decision, assign the
\* variable in a copy of the assignment, and call dpll unless that conflicts.
DpllBranch ==
    /\ frames # <<>>
    /\ top.pc = "branch"
    /\ top.value <= Len(branch_values)
    /\ LET trial_literal == IF branch_values[top.value] THEN top.var ELSE -top.var
           a == assign_literal(top.current, top.assignment, trial_literal)
           here == [top EXCEPT !.value = @ + 1]
       IN frames' = IF a.conflict THEN Append(callers, here)
                    ELSE Append(callers, here) \o <<entered(a.clauses, a.assignment)>>
    /\ dstats' = [dstats EXCEPT !.decisions = @ + 1]
    /\ UNCHANGED <<notDpll, text, cnf, dresult>>

\* dpll, line 140: both values failed.
DpllExhausted ==
    /\ frames # <<>>
    /\ top.pc = "branch"
    /\ top.value > Len(branch_values)
    /\ ReturnFalse(dstats)
    /\ UNCHANGED <<notDpll, text, cnf, dstats>>

DpllNext ==
    \/ DpllStart
    \/ DpllEnter
    \/ DpllBranch
    \/ DpllExhausted

SpecDPLL == DpllInit /\ [][DpllNext]_vars

-----------------------------------------------------------------------------
(* Properties of the DPLL run                                              *)

\* C3: when the DPLL run returns SAT, every clause read from the file has a
\* literal that the returned assignment makes true.
C3_DpllSatSound ==
    dresult.status = "SAT" =>
        \A i \in DOMAIN cnf.clauses : SatisfiedBy(cnf.clauses[i], dresult.assignment)

\* A SAT answer returned from inside a branch, by a nested call of dpll.
C3_Witness ==
    /\ dresult.status = "SAT"
    /\ dresult.decisions > 0
    /\ dresult.pure_eliminations > 0

\* C4: when the DPLL run returns UNSAT, no total assignment satisfies every
\* clause read from the file; so a satisfiable formula is never answered
\* UNSAT.
C4_DpllUnsatSound ==
    dresult.status = "UNSAT" => ~Satisfiable(cnf.clauses, NumVarsOf(cnf.clauses))

\* An UNSAT answer after both values of a branching variable failed.
C4_Witness ==
    /\ dresult.status = "UNSAT"
    /\ dresult.decisions >= 2

\* C20: the first branch of a branching node of dpll assigns the variable
\* the value that makes the literal chosen by pick_literal true: true for a
\* positive literal, false for a negative one.
C20_BranchPolarity ==
    [][(/\ frames # <<>>
        /\ top.pc = "branch"
        /\ top.value = 1
        /\ Len(frames') = Len(frames) + 1)
       => LET literal == pick_literal(top.current, top.assignment)
          IN frames'[Len(frames')].assignment[abs(literal)] = (literal > 0)]_vars

\* The Jeroslow-Wang weight of a literal: the sum of 2^-k over the clauses
\* of length k that no assigned literal satisfies and that contain the
\* literal, in units of 2^-longest.
Active(clause, assignment) ==
    \A i \in DOMAIN clause : value_of(clause[i], assignment) # "True"

TotalWeight(clauses, assignment, lit) ==
    LET longest == Max({0} \cup {Len(clauses[i]) : i \in DOMAIN clauses})
    IN SumSeq([i \in DOMAIN clauses |->
                  IF Active(clauses[i], assignment) /\ lit \in Range(clauses[i])
                  THEN Pow(2, longest - Len(clauses[i])) ELSE 0])

Unassigned(clauses, assignment) ==
    {lit \in Lits(NumVarsOf(clauses)) : abs(lit) \notin DOMAIN assignment}

\* C21: on the non-empty clause set a node of dpll branches on, pick_literal
\* returns a literal of an unassigned variable whose Jeroslow-Wang weight is
\* the largest among the literals of unassigned variables.
C21_JeroslowWangMaximal ==
    (frames # <<>> /\ top.pc = "branch") =>
        LET literal == pick_literal(top.current, top.assignment)
        IN /\ literal \in Unassigned(top.current, top.assignment)
           /\ \A lit \in Unassigned(top.current, top.assignment) :
                  TotalWeight(top.current, top.assignment, lit)
                      <= TotalWeight(top.current, top.assignment, literal)

\* What a call of dpll starts from: run_solver's copy of the clauses and an
\* empty dict for the outermost call, and for a nested call what
\* assign_literal made of its caller's clauses and of a copy of its caller's
\* dict in the round of the loop the caller is in.
StartOf(i) ==
    IF i = 1 THEN [clauses |-> cnf.clauses, assignment |-> <<>>]
    ELSE LET caller == frames[i - 1]
             value == branch_values[caller.value - 1]
         IN assign_literal(caller.current, caller.assignment,
                           IF value THEN caller.var ELSE -caller.var)

\* What unit propagation and pure-literal elimination make of them.
Simplified(start) ==
    LET u == unit_propagate(start.clauses, start.assignment, 0)
    IN pure_literal_elimination(u.clauses, u.assignment, 0)

\* C23: at every point of the search, also after a branch has failed, every
\* call of dpll that is in its loop holds exactly the clauses and the
\* assignment that its own unit propagation and pure-literal elimination
\* made of what it started from, and the call of each branch starts from
\* them and the branch's literal: no assignment of a failed branch is seen.
C23_BranchIsolation ==
    \A i \in DOMAIN frames :
        /\ frames[i].clauses = StartOf(i).clauses
        /\ frames[i].pc = "enter" => frames[i].assignment = StartOf(i).assignment
        /\ frames[i].pc = "branch" =>
               /\ frames[i].current = Simplified(StartOf(i)).clauses
               /\ frames[i].assignment = Simplified(StartOf(i)).assignment

\* The second branch of the outermost call has been entered after the call
\* of the first branch propagated units and failed.
C23_Witness ==
    /\ Len(frames) = 2
    /\ frames[1].value = 3
    /\ frames[1].current = frames[1].clauses
    /\ frames[2].pc = "enter"
    /\ dstats.unit_propagations > 0

-----------------------------------------------------------------------------
(* The random module                                                       *)

\* A call that draws from the generator (random.choice, random.random) has n
\* outcomes the caller can tell apart; which one it gets is a function of the
\* seed and of the number of draws made since seeding.  Of a generator seeded
\* from the system's entropy nothing is known, and nothing is recorded.
\* Drawn(g, k, n): the outcomes open to the k-th draw from now.
Drawn(g, k, n) ==
    LET i == g.pos + k - stream.base
    IN IF g.seed # NoSeed /\ i \in DOMAIN stream.known
       THEN {stream.known[i] % n}
       ELSE 0..(n - 1)

\* The outcome sequences open to Len(ns) draws in a row, the k-th with ns[k]
\* outcomes.
Draws(g, ns) ==
    {us \in [DOMAIN ns -> 0..(Max({1} \cup Range(ns)) - 1)] :
        \A k \in DOMAIN ns : us[k] \in Drawn(g, k, ns[k])}

\* The stream once g has drawn the outcomes us.
recorded(g, us) ==
    IF g.seed = NoSeed THEN stream
    ELSE [stream EXCEPT
             !.known = [i \in 1..Max({Len(stream.known),
                                      g.pos + Len(us) - stream.base}) |->
                           IF i <= Len(stream.known) THEN stream.known[i]
                           ELSE us[i + stream.base - g.pos]]]

\* The processes that are given a seed and have draws to make, and how far
\* in the stream each of them is.
readers(procs) == {r \in DOMAIN procs : procs[r].pc # "done" /\ procs[r].seed # NoSeed}

position(generators, procs, r) == IF procs[r].pc = "start" THEN 0 ELSE generators[r].pos

\* s without the outcomes that all readers have passed.
kept(s, generators, procs) ==
    LET end == s.base + Len(s.known)
        passed == {q \in s.base..end :
                      \A r \in readers(procs) : q <= position(generators, procs, r)}
        base == Max(passed)
    IN [base |-> base, known |-> SubSeq(s.known, base - s.base + 1, Len(s.known))]

\* random.seed that leaves the generator as it is.
seed_ignored(g, a) == g

\* random.seed(a): the stream of a, from its start.
seed(g, a) == [seed |-> a, pos |-> 0]

-----------------------------------------------------------------------------
(* solvers/walksat.py and solvers/probsat.py                               *)

\* The defaults of --noise and --epsilon, as fractions.
NoiseNum == 1
NoiseDen == 2
EpsilonNum == 1
EpsilonDen == 2

clause_value(clause, assignment) ==
    \E i \in DOMAIN clause : value_of(clause[i], assignment) = "True"

\* unsatisfied_clauses that looks at the first clause only.
unsatisfied_clauses_first_only(clauses, assignment) ==
    SelectSeq(clauses, LAMBDA clause :
                  clause = clauses[1] /\ ~clause_value(clause, assignment))

unsatisfied_clauses(clauses, assignment) ==
    SelectSeq(clauses, LAMBDA clause : ~clause_value(clause, assignment))

flip_variable(assignment, var) == [assignment EXCEPT ![var] = ~@]

\* probsat.break_score, and walk_sat's "broken" of lines 67-69.
break_score(clauses, assignment, var) ==
    Len(unsatisfied_clauses(clauses, flip_variable(assignment, var)))

\* The values of "random.random() < noise" that some value of random.random()
\* in [0, 1) gives.
noise_outcomes ==
    SelectSeq(<<TRUE, FALSE>>,
              LAMBDA below : IF below THEN NoiseNum > 0 ELSE NoiseNum < NoiseDen)

\* float("inf") of line 64: a score above every count of clauses.
NoScore(clauses) == Len(clauses) + 1

\* The loop of walk_sat, lines 65-72, that takes the last variable of the
\* least score.
RECURSIVE greedy_scan_last_on_ties(_, _, _, _, _)
greedy_scan_last_on_ties(clause, i, clauses, assignment, best) ==
    IF i > Len(clause) THEN [var |-> best.var, assignment |-> assignment]
    ELSE LET var == abs(clause[i])
             a1 == flip_variable(assignment, var)
             broken == Len(unsatisfied_clauses(clauses, a1))
             a2 == flip_variable(a1, var)
         IN greedy_scan_last_on_ties(clause, i + 1, clauses, a2,
                IF broken <= best.score THEN [var |-> var, score |-> broken]
                ELSE best)

\* The loop of walk_sat, lines 65-72, from position i of the clause on: each
\* variable is flipped in the assignment, the unsatisfied clauses are
\* counted, the variable is flipped back; best is the best variable so far
\* and its score.  The result is the best variable and the assignment the
\* loop leaves.
RECURSIVE greedy_scan(_, _, _, _, _)
greedy_scan(clause, i, clauses, assignment, best) ==
    IF i > Len(clause) THEN [var |-> best.var, assignment |-> assignment]
    ELSE LET var == abs(clause[i])
             a1 == flip_variable(assignment, var)
             broken == Len(unsatisfied_clauses(clauses, a1))
             a2 == flip_variable(a1, var)
         IN greedy_scan(clause, i + 1, clauses, a2,
                IF broken < best.score THEN [var |-> var, score |-> broken]
                ELSE best)

\* walk_sat, lines 63-72: best_var and the assignment after the scoring.
best_var(clause, clauses, assignment) ==
    greedy_scan(clause, 1, clauses, assignment,
                [var |-> NoVar, score |-> NoScore(clauses)])

\* select_variable_probabilistic: the positions in the clause that the loop
\* of lines 69-72 returns for some value of random.random().  r ranges over
\* [0, total): the first position is returned for r = 0, a later one for an
\* r between the sums before and after it, which exists when its score
\* epsilon^break_score is not 0.
selectable(clause, clauses, assignment) ==
    SelectSeq([i \in DOMAIN clause |-> i],
              LAMBDA i : \/ i = 1
                         \/ EpsilonNum > 0
                         \/ break_score(clauses, assignment, abs(clause[i])) = 0)

ls_result(l) ==
    [solver |-> l.solver,
     status |-> IF l.found /\ l.assignment # <<>> THEN "SAT" ELSE "UNKNOWN",
     flips |-> l.stats.flips, restarts |-> l.stats.restarts,
     num_vars |-> cnf.num_vars, num_clauses |-> cnf.num_clauses,
     assignment |-> IF l.found THEN l.assignment ELSE <<>>]

\* Bounds of the local-search runs: --max-flips and --restarts range over
\* 0..MaxFlips and 0..MaxRestarts, the exhaustively enumerated formulas have
\* at most MaxLsLits literal occurrences.
MaxFlips == 2
MaxRestarts == 2
MaxLsLits == 1

\* Every variable of these formulas lies in 1..num_vars of the header.
LsFormulas ==
    {TrivialSat, TrivialUnsat, XorLike, TwoConflicts, Fillers(0)}
    \cup UNION {FormulasOfSize(Lits(NumVars), n) : n \in 0..MaxLsLits}

\* The text of a formula under a header that declares one variable more
\* than the clauses use.
WithSpareVariable(formula) ==
    <<HeaderLine(NumVarsOf(formula) + 1, Len(formula))>> \o Tail(TextOf(formula))

LsTexts ==
    {TextOf(f) : f \in LsFormulas}
    \cup {WithSpareVariable(f) : f \in {<<>>, TrivialSat, TrivialUnsat}}

Solvers == {"walksat", "probsat"}

\* --seed: absent, or a value.
SeedArgs == {NoSeed, 0}

\* main about to call run_solver.
ls_main(solver, max_flips, restarts, a) ==
    [solver |-> solver, max_flips |-> max_flips, restarts |-> restarts, seed |-> a,
     pc |-> "start", attempt |-> 0, step |-> 0,
     assignment |-> <<>>, found |-> FALSE, stats |-> [flips |-> 0, restarts |-> 0]]

\* Two processes are started on the same file with the same arguments and the
\* same seed, or one process without a seed.
LsInit ==
    /\ text \in LsTexts
    /\ cnf = NothingRead
    /\ CdclUnused
    /\ DpllUnused
    /\ HarnessUnused
    /\ EncoderUnused
    /\ CallUnused
    /\ \E solver \in Solvers, max_flips \in 0..MaxFlips,
          restarts \in 0..MaxRestarts, a \in SeedArgs :
          LET processes == IF a = NoSeed THEN {1} ELSE {1, 2}
          IN /\ ls = [r \in processes |-> ls_main(solver, max_flips, restarts, a)]
             /\ lresults = [r \in processes |-> NotRun(solver)]
             /\ rng = [r \in processes |-> fresh_generator]
    /\ stream = NothingDrawn
    /\ turn = 1

me == ls[turn]
other == IF Len(ls) = 1 THEN turn ELSE 3 - turn

\* Two processes share nothing, so the records they return do not depend on
\* how their steps interleave: they take turns, so that the stream is known
\* no further than one step ahead of its last reader.
next_turn(procs) == IF procs[other].pc = "done" THEN turn ELSE other

Stepping(pc) ==
    /\ turn \in DOMAIN ls
    /\ me.pc = pc

\* The step of the process whose turn it is: its locals become l, it has
\* drawn the outcomes us.
Step(l, us) ==
    /\ ls' = [ls EXCEPT ![turn] = l]
    /\ rng' = [rng EXCEPT ![turn].pos = @ + Len(us)]
    /\ stream' = kept(recorded(rng[turn], us), rng', ls')
    /\ turn' = next_turn(ls')

\* main, walksat.py 109-110 and probsat.py 119-120, seeds the generator when
\* --seed is given; run_solver reads the file (walksat.py 80-82).
LsStart ==
    /\ Stepping("start")
    /\ cnf' = parse_dimacs(text)
    /\ ls' = [ls EXCEPT ![turn].pc = "attempt"]
    /\ rng' = [rng EXCEPT ![turn] = IF me.seed = NoSeed THEN fresh_generator
                                    ELSE seed(fresh_generator, me.seed)]
    /\ stream' = kept(stream, rng', ls')
    /\ turn' = next_turn(ls')
    /\ UNCHANGED <<notLs, text, lresults>>

\* run_solver's loop head and walk_sat / prob_sat up to their loop:
\* initialize_assignment draws a value for each of 1..num_vars.
LsAttempt ==
    /\ Stepping("attempt")
    /\ me.attempt < me.restarts
    /\ \E us \in Draws(rng[turn], [var \in 1..cnf.num_vars |-> 2]) :
          Step([me EXCEPT !.pc = "step", !.step = 0,
                          !.assignment = [var \in 1..cnf.num_vars |-> us[var] = 0]],
               us)
    /\ UNCHANGED <<notLs, text, cnf, lresults>>

InLoop ==
    /\ Stepping("step")
    /\ me.step < me.max_flips

\* walk_sat 54-56, prob_sat 79-81, and run_solver's break: no clause is
\* unsatisfied.
LsFound ==
    /\ InLoop
    /\ unsatisfied_clauses(cnf.clauses, me.assignment) = <<>>
    /\ Step([me EXCEPT !.pc = "finish", !.found = TRUE], <<>>)
    /\ UNCHANGED <<notLs, text, cnf, lresults>>

flipped(l, var) ==
    [l EXCEPT !.assignment = flip_variable(@, var), !.stats.flips = @ + 1, !.step = @ + 1]

\* walk_sat, lines 57-75: one flip, at random or greedy.
WalkSatStep ==
    /\ InLoop
    /\ me.solver = "walksat"
    /\ LET unsatisfied == unsatisfied_clauses(cnf.clauses, me.assignment)
       IN /\ unsatisfied # <<>>
          /\ \E u1 \in Drawn(rng[turn], 1, Len(unsatisfied)),
                u2 \in Drawn(rng[turn], 2, Len(noise_outcomes)) :
                LET clause == unsatisfied[u1 + 1]
                IN IF noise_outcomes[u2 + 1]
                   THEN \E u3 \in Drawn(rng[turn], 3, Len(clause)) :
                           Step(flipped(me, abs(clause[u3 + 1])), <<u1, u2, u3>>)
                   ELSE LET best == best_var(clause, cnf.clauses, me.assignment)
                        IN Step(flipped([me EXCEPT !.assignment = best.assignment],
                                        best.var),
                                <<u1, u2>>)
    /\ UNCHANGED <<notLs, text, cnf, lresults>>

\* prob_sat, lines 82-85: one flip.
ProbSatStep ==
    /\ InLoop
    /\ me.solver = "probsat"
    /\ LET unsatisfied == unsatisfied_clauses(cnf.clauses, me.assignment)
       IN /\ unsatisfied # <<>>
          /\ \E u1 \in Drawn(rng[turn], 1, Len(unsatisfied)) :
                LET clause == unsatisfied[u1 + 1]
                    positions == selectable(clause, cnf.clauses, me.assignment)
                IN \E u2 \in Drawn(rng[turn], 2, Len(positions)) :
                      Step(flipped(me, abs(clause[positions[u2 + 1]])), <<u1, u2>>)
    /\ UNCHANGED <<notLs, text, cnf, lresults>>

\* walk_sat 76, prob_sat 86, run_solver 88: the flips are used up, the
\* attempt returns None and is counted as a restart.
LsGiveUp ==
    /\ Stepping("step")
    /\ me.step >= me.max_flips
    /\ Step([me EXCEPT !.pc = "attempt", !.attempt = @ + 1, !.stats.restarts = @ + 1],
            <<>>)
    /\ UNCHANGED <<notLs, text, cnf, lresults>>

\* run_solver, walksat.py 89-98 and probsat.py 99-108: after the break or
\* after the last attempt; main prints the record and the process ends.
LsFinish ==
    /\ turn \in DOMAIN ls
    /\ \/ me.pc = "finish"
       \/ me.pc = "attempt" /\ me.attempt >= me.restarts
    /\ lresults' = [lresults EXCEPT ![turn] = ls_result(me)]
    /\ Step([me EXCEPT !.pc = "done"], <<>>)
    /\ UNCHANGED <<notLs, text, cnf>>

LsNext ==
    \/ LsStart
    \/ LsAttempt
    \/ LsFound
    \/ WalkSatStep
    \/ ProbSatStep
    \/ LsGiveUp
    \/ LsFinish

SpecLS == LsInit /\ [][LsNext]_vars

-----------------------------------------------------------------------------
(* Properties of the local-search runs                                     *)

\* C5: a SAT record of WalkSAT or probSAT carries an assignment that gives a
\* value to each of the variables 1..num_vars and makes a literal of every
\* clause true; so no SAT record is returned on an unsatisfiable formula.
\* (The variables of every formula of LsTexts lie in 1..num_vars.)
C5_LocalSearchSatSound ==
    \A r \in DOMAIN lresults :
        lresults[r].status = "SAT" =>
            /\ DOMAIN lresults[r].assignment = 1..cnf.num_vars
            /\ \A j \in DOMAIN cnf.clauses :
                   SatisfiedBy(cnf.clauses[j], lresults[r].assignment)
            /\ Satisfiable(cnf.clauses, cnf.num_vars)

\* A SAT record found by flipping, after an attempt that gave up.
C5_Witness ==
    \E r \in DOMAIN lresults :
        /\ lresults[r].status = "SAT"
        /\ lresults[r].flips > 0
        /\ lresults[r].restarts > 0

\* The file "p cnf 0 0".
EmptyFormula == <<HeaderLine(0, 0)>>

\* C7: on the formula without clauses every solver returns SAT with an empty
\* assignment; WalkSAT and probSAT when --restarts is at least 1 (and, not to
\* count a run that is allowed no step at all, --max-flips is at least 1).
C7_EmptyFormulaSat ==
    text = EmptyFormula =>
        /\ result.status # "" => result.status = "SAT" /\ result.assignment = <<>>
        /\ dresult.status # "" => dresult.status = "SAT" /\ dresult.assignment = <<>>
        /\ \A r \in DOMAIN lresults :
               (lresults[r].status # "" /\ ls[r].restarts >= 1 /\ ls[r].max_flips >= 1) =>
                   lresults[r].status = "SAT" /\ lresults[r].assignment = <<>>

BothReturned == \A r \in DOMAIN lresults : lresults[r].status # ""

\* C10: two runs of WalkSAT, or of probSAT, on the same file with the same
\* arguments and the same --seed return the same status, assignment, flips
\* and restarts.
C10_SeededReproducible ==
    (Len(ls) = 2 /\ BothReturned /\ me.seed # NoSeed) =>
        /\ lresults[1].status = lresults[2].status
        /\ lresults[1].assignment = lresults[2].assignment
        /\ lresults[1].flips = lresults[2].flips
        /\ lresults[1].restarts = lresults[2].restarts

\* Two seeded runs that flipped, gave up an attempt and found a model.
C10_Witness ==
    /\ Len(ls) = 2
    /\ BothReturned
    /\ me.seed # NoSeed
    /\ lresults[2].flips > 0
    /\ lresults[2].restarts > 0
    /\ lresults[2].status = "SAT"

-----------------------------------------------------------------------------
(* harness/run_experiments.py                                              *)

\* Python's None.
None == "None"

clause_satisfied(clause, assignment) ==
    \E i \in DOMAIN clause : value_of(clause[i], assignment) = "True"

\* verify_assignment that accepts every assignment.
verify_assignment_accepts_all(clauses, assignment) == TRUE

verify_assignment(clauses, assignment) ==
    /\ assignment # <<>>
    /\ \A i \in DOMAIN clauses : clause_satisfied(clauses[i], assignment)

\* What main keeps of a runner that raised TimeoutError: {}.
NoResult == <<>>

\* main, lines 152-183: the row written for a runner that returned a record
\* or timed out.  (verify_assignment raises nothing on a mapping from variables
\* to Booleans, so lines 161-163 are not entered.)
harness_record(solver_name, meta, returned, timed_out) ==
    LET status == IF ~timed_out THEN Get(returned, "status", "UNKNOWN") ELSE "TIMEOUT"
        assignment == Get(returned, "assignment", <<>>)
        checked == status = "SAT" /\ assignment # <<>>
        verified == checked /\ verify_assignment(meta.clauses, assignment)
    IN [solver |-> solver_name,
        num_vars |-> meta.num_vars, num_clauses |-> meta.num_clauses,
        status |-> IF checked /\ ~verified THEN "ERROR" ELSE status,
        flips |-> Get(returned, "flips", None),
        restarts |-> Get(returned, "restarts", None),
        verified |-> IF ~checked THEN None ELSE IF verified THEN "True" ELSE "False"]

\* dpll_baseline.run_solver is not among the sources.  Of its record the
\* harness reads the status and the assignment; it is taken to be any record
\* of the common shape: a status and a mapping from some of the variables to
\* Booleans.
BaselineRecords(meta) ==
    {[solver |-> "dpll_baseline", status |-> status, assignment |-> assignment] :
        status \in {"SAT", "UNSAT", "UNKNOWN"},
        assignment \in UNION {[S -> BOOLEAN] : S \in SUBSET (1..meta.num_vars)}}

\* --solvers: the names of build_runners that the model runs.
HarnessSolvers == Solvers \cup {"dpll_baseline"}

\* --solver-timeout: none, or the default.
SolverTimeouts == {0, 60}

HarnessFormulas == {<<>>, TrivialSat, TrivialUnsat, XorLike}

HarnessTexts == {TextOf(f) : f \in HarnessFormulas}

\* main at line 95: arguments parsed, selected (line 107) still to run on
\* the one file of --benchmarks.
harness_main(a, solver_timeout, selected, walksat_args, probsat_args) ==
    [seed |-> a, solver_timeout |-> solver_timeout, selected |-> selected,
     walksat |-> walksat_args, probsat |-> probsat_args,
     result |-> NoResult, timed_out |-> FALSE, records |-> <<>>]

NoArgs == [max_flips |-> 0, restarts |-> 0]

\* The values of --walksat-max-flips and --walksat-restarts (--probsat-...)
\* when the solver is among the selected ones: no or MaxFlips flips, one or
\* MaxRestarts attempts.
HarnessArgs(solver, selected) ==
    IF solver \in Range(selected)
    THEN [max_flips : {0, MaxFlips}, restarts : {1, MaxRestarts}]
    ELSE {NoArgs}

\* A harness process is given a seed and runs one local-search solver on the
\* file; a second process is given the same arguments and runs another
\* local-search solver before that one, both without a timeout.  Without a
\* seed there is one process, which runs two solvers, the first of them any
\* of HarnessSolvers.
HarnessInit ==
    /\ text \in HarnessTexts
    /\ cnf = NothingRead
    /\ CdclUnused
    /\ DpllUnused
    /\ EncoderUnused
    /\ CallUnused
    /\ \E a \in SeedArgs, solver_timeout \in SolverTimeouts,
          earlier \in HarnessSolvers, solver \in Solvers :
          \E walksat_args \in HarnessArgs("walksat", <<earlier, solver>>),
             probsat_args \in HarnessArgs("probsat", <<earlier, solver>>) :
             LET processes == IF a = NoSeed THEN {1} ELSE {1, 2}
                 selected(r) == IF r = Max(processes) THEN <<earlier, solver>>
                                ELSE <<solver>>
             IN /\ a # NoSeed => earlier \in Solvers /\ solver_timeout = 0
                /\ harness = [r \in processes |->
                                 harness_main(a, solver_timeout, selected(r),
                                              walksat_args, probsat_args)]
                /\ ls = [r \in processes |-> ls_main("", 0, 0, a)]
                /\ rng = [r \in processes |-> fresh_generator]
    /\ lresults = <<>>
    /\ stream = NothingDrawn
    /\ turn = 1

notHarness == <<cdclVars, dpllVars, encoderVars, callVars, lresults>>

h == harness[turn]

\* main, lines 95-96: the one seeding of the process.
HarnessSeed ==
    /\ Stepping("start")
    /\ ls' = [ls EXCEPT ![turn].pc = "harness"]
    /\ rng' = [rng EXCEPT ![turn] = IF h.seed = NoSeed THEN fresh_generator
                                    ELSE seed(fresh_generator, h.seed)]
    /\ stream' = kept(stream, rng', ls')
    /\ turn' = next_turn(ls')
    /\ UNCHANGED <<notHarness, harness, text, cnf>>

\* main, lines 136-144, calls the runner of a local-search solver, which
\* reads the file (walksat.py 80-82, probsat.py 90-92).
HarnessRun ==
    /\ Stepping("harness")
    /\ h.selected # <<>>
    /\ Head(h.selected) \in Solvers
    /\ cnf' = parse_dimacs(text)
    /\ LET solver_name == Head(h.selected)
           args == h[solver_name]
       IN Step([ls_main(solver_name, args.max_flips, args.restarts, h.seed)
                   EXCEPT !.pc = "attempt"], <<>>)
    /\ UNCHANGED <<notHarness, harness, text>>

\* main, lines 145-187: the row of the runner that returned or timed
\* out is written, and the loop goes on to the next solver.
Written(returned, timed_out) ==
    harness' = [harness EXCEPT
                   ![turn].result = returned,
                   ![turn].timed_out = timed_out,
                   ![turn].selected = Tail(@),
                   ![turn].records =
                       Append(@, harness_record(Head(h.selected), parse_dimacs(text),
                                                returned, timed_out))]

\* run_solver returns (walksat.py 89-98, probsat.py 99-108) to main.
HarnessRecord ==
    /\ turn \in DOMAIN ls
    /\ \/ me.pc = "finish"
       \/ me.pc = "attempt" /\ me.attempt >= me.restarts
    /\ Written(ls_result(me), FALSE)
    /\ Step([me EXCEPT !.pc = "harness"], <<>>)
    /\ UNCHANGED <<notHarness, text, cnf>>

\* solver_timeout, lines 61-76: the alarm goes off while the runner runs.
HarnessTimeout ==
    /\ turn \in DOMAIN ls
    /\ me.pc \in {"attempt", "step", "finish"}
    /\ h.solver_timeout > 0
    /\ Written(NoResult, TRUE)
    /\ Step([me EXCEPT !.pc = "harness"], <<>>)
    /\ UNCHANGED <<notHarness, text, cnf>>

\* The runner of dpll_baseline returns a record, or times out.
HarnessBaseline ==
    /\ Stepping("harness")
    /\ h.selected # <<>>
    /\ Head(h.selected) = "dpll_baseline"
    /\ \/ \E returned \in BaselineRecords(parse_dimacs(text)) : Written(returned, FALSE)
       \/ h.solver_timeout > 0 /\ Written(NoResult, TRUE)
    /\ Step(me, <<>>)
    /\ UNCHANGED <<notHarness, text, cnf>>

\* The loops of lines 134 and 136 are over.
HarnessDone ==
    /\ Stepping("harness")
    /\ h.selected = <<>>
    /\ Step([me EXCEPT !.pc = "done"], <<>>)
    /\ UNCHANGED <<notHarness, harness, text, cnf>>

HarnessNext ==
    \/ HarnessSeed
    \/ HarnessRun
    \/ LsAttempt
    \/ LsFound
    \/ WalkSatStep
    \/ ProbSatStep
    \/ LsGiveUp
    \/ HarnessRecord
    \/ HarnessTimeout
    \/ HarnessBaseline
    \/ HarnessDone

SpecHarness == HarnessInit /\ [][HarnessNext]_vars

-----------------------------------------------------------------------------
(* Properties of the harness                                               *)

AllDone == \A r \in DOMAIN ls : ls[r].pc = "done"

NoTimeout(r) ==
    \A i \in DOMAIN harness[r].records : harness[r].records[i].status # "TIMEOUT"

\* C11: the record that WalkSAT or probSAT returns to a seeded harness does
\* not depend on the solver invocations made earlier in the process: it is
\* the record returned when the invocation is the first of the process.
C11_NoProcessGlobalState ==
    (Len(harness) = 2 /\ AllDone /\ NoTimeout(1) /\ NoTimeout(2)) =>
        harness[1].result = harness[2].result

-----------------------------------------------------------------------------
(* Properties of the records the solvers return                            *)

\* The sizes that a returned record is to carry.
SizesOfInput(record) ==
    /\ "num_vars" \in DOMAIN record
    /\ "num_clauses" \in DOMAIN record
    /\ record.num_vars = cnf.num_vars
    /\ record.num_clauses = cnf.num_clauses

\* C12: the record returned by CDCL, by DPLL-JW, by WalkSAT and by probSAT
\* has the fields num_vars and num_clauses, and they are the num_vars and
\* num_clauses of the formula read from the file.
C12_ResultRecordSizes ==
    /\ result.status # "" => SizesOfInput(result)
    /\ dresult.status # "" => SizesOfInput(dresult)
    /\ \A r \in DOMAIN lresults : lresults[r].status # "" => SizesOfInput(lresults[r])

\* C13: WalkSAT and probSAT return UNKNOWN exactly when no attempt returned a
\* model, that is when each of the `restarts` attempts made max_flips flips
\* and gave up: then the restarts counter is the restarts parameter and the
\* assignment is empty.  When the k-th attempt returns a model the status is
\* SAT and the restarts counter is k - 1.
C13_LocalSearchExhaustion ==
    \A r \in DOMAIN lresults :
        lresults[r].status # "" =>
            /\ lresults[r].status \in {"SAT", "UNKNOWN"}
            /\ lresults[r].status = "UNKNOWN" <=> ~ls[r].found
            /\ lresults[r].status = "UNKNOWN" =>
                   /\ lresults[r].restarts = ls[r].restarts
                   /\ lresults[r].flips = ls[r].restarts * ls[r].max_flips
                   /\ lresults[r].assignment = <<>>
            /\ lresults[r].status = "SAT" =>
                   /\ lresults[r].restarts = ls[r].attempt
                   /\ ls[r].attempt < ls[r].restarts

-----------------------------------------------------------------------------
(* DIMACS files: utils/sudoku_encoder.py write_dimacs, utils/cnf_parser.py *)

SIZE == 9

Digits == <<"0", "1", "2", "3", "4", "5", "6", "7", "8", "9">>

\* The decimal digits of n >= 0.
RECURSIVE decimal(_)
decimal(n) ==
    IF n < 10 THEN <<Digits[n + 1]>>
    ELSE Append(decimal(n \div 10), Digits[(n % 10) + 1])

\* str(n) that leaves out the sign.
str_unsigned(n) == decimal(abs(n))

\* Python's str(n) of an int.
str(n) == IF n < 0 THEN <<"-">> \o decimal(-n) ELSE decimal(n)

RECURSIVE number(_)
number(digits) ==
    LET units == CHOOSE d \in 0..9 : Digits[d + 1] = digits[Len(digits)]
    IN IF Len(digits) = 1 THEN units
       ELSE 10 * number(SubSeq(digits, 1, Len(digits) - 1)) + units

\* Python's int(token) of a token made of an optional sign and digits.
int(token) ==
    IF token[1] = "-" THEN -number(Tail(token))
    ELSE IF token[1] = "+" THEN number(Tail(token))
    ELSE number(token)

\* " ".join(words)
RECURSIVE join(_)
join(words) ==
    IF words = <<>> THEN <<>>
    ELSE IF Len(words) = 1 THEN words[1]
    ELSE words[1] \o <<" ">> \o join(Tail(words))

\* line.split(): the words of the characters from position i on, after the
\* characters of word.
RECURSIVE split_from(_, _, _)
split_from(chars, i, word) ==
    LET ended == IF word = <<>> THEN <<>> ELSE <<word>>
    IN IF i > Len(chars) THEN ended
       ELSE IF chars[i] = " " THEN ended \o split_from(chars, i + 1, <<>>)
       ELSE split_from(chars, i + 1, Append(word, chars[i]))

split(chars) == split_from(chars, 1, <<>>)

\* raw.strip()
strip(raw) ==
    LET inked == {i \in DOMAIN raw : raw[i] # " "}
    IN IF inked = {} THEN <<>>
       ELSE SubSeq(raw, CHOOSE i \in inked : \A j \in inked : i <= j, Max(inked))

\* write_dimacs: the lines written (each without its "\n").
write_dimacs(clauses) ==
    LET total_vars == SIZE * SIZE * SIZE
    IN <<(<<"p", " ", "c", "n", "f", " ">> \o str(total_vars) \o <<" ">>
              \o str(Len(clauses)))>>
       \o [i \in DOMAIN clauses |->
              join([j \in DOMAIN clauses[i] |-> str(clauses[i][j])]) \o <<" ", "0">>]

\* parse_dimacs, lines 20-29: what the reader makes of one line of the file.
\* A line that is empty, a comment or a header of fewer than 4 words changes
\* nothing.  (The files of the model write every zero as "0".)
read_line(raw) ==
    LET line == strip(raw)
        parts == split(line)
    IN IF line = <<>> \/ line[1] = "c" THEN CommentLine
       ELSE IF line[1] = "p"
            THEN IF Len(parts) >= 4 THEN HeaderLine(int(parts[3]), int(parts[4]))
                 ELSE CommentLine
       ELSE ClauseLine([i \in DOMAIN parts |-> int(parts[i])])

read_lines(lines) == [i \in DOMAIN lines |-> read_line(lines[i])]

\* Bound of the files: a file's clauses have at most MaxFileLits literal
\* occurrences.
MaxFileLits == 2

FileFormulas == UNION {FormulasOfSize(Lits(NumVars), n) : n \in 1..MaxFileLits}

\* The tokens of a formula, each clause ended by 0.
RECURSIVE TokensOf(_)
TokensOf(formula) ==
    IF formula = <<>> THEN <<>>
    ELSE Append(Head(formula), 0) \o TokensOf(Tail(formula))

\* The lines of tokens[i..], after the tokens of line, when the line is
\* broken after each position in breaks.
RECURSIVE LaidOut(_, _, _, _)
LaidOut(tokens, breaks, i, line) ==
    IF i > Len(tokens) THEN IF line = <<>> THEN <<>> ELSE <<line>>
    ELSE IF i \in breaks
         THEN <<Append(line, tokens[i])>> \o LaidOut(tokens, breaks, i + 1, <<>>)
    ELSE LaidOut(tokens, breaks, i + 1, Append(line, tokens[i]))

\* A file of the formula: a comment, the header, an empty line, and the
\* tokens of the clauses with line breaks after the positions in breaks.
FileOf(formula, breaks) ==
    LET lines == LaidOut(TokensOf(formula), breaks, 1, <<>>)
    IN << <<"c">>,
          <<"p", " ", "c", "n", "f", " ">> \o str(NumVarsOf(formula)) \o <<" ">>
              \o str(Len(formula)),
          <<>> >>
       \o [i \in DOMAIN lines |->
              join([j \in DOMAIN lines[i] |-> str(lines[i][j])])]

ReaderFiles ==
    UNION {{FileOf(f, breaks) : breaks \in SUBSET (1..(Len(TokensOf(f)) - 1))} :
           f \in FileFormulas}

\* Clauses of literals of several digits.
WideListing == << <<10, -729>>, <<-100, 5, 99>> >>

Listings == {<<>>, WideListing} \cup FileFormulas

\* A file to read, or a list of clauses to write and read back.
DimacsInit ==
    /\ text = <<>>
    /\ cnf = NothingRead
    /\ CdclUnused
    /\ DpllUnused
    /\ LsUnused
    /\ HarnessUnused
    /\ CallUnused
    /\ puzzle = <<>>
    /\ \/ listing \in Listings /\ file = NoFile
       \/ listing = NoListing /\ file \in ReaderFiles

notEncoder == <<cdclVars, dpllVars, lsVars, harnessVars, callVars>>

WriteDimacs ==
    /\ listing # NoListing
    /\ file = NoFile
    /\ file' = write_dimacs(listing)
    /\ UNCHANGED <<notEncoder, text, cnf, puzzle, listing>>

\* parse_dimacs on the file.
ReadDimacs ==
    /\ file # NoFile
    /\ text = <<>>
    /\ text' = read_lines(file)
    /\ cnf' = parse_dimacs(text')
    /\ UNCHANGED <<notEncoder, puzzle, listing, file>>

DimacsNext ==
    \/ WriteDimacs
    \/ ReadDimacs

SpecDimacs == DimacsInit /\ [][DimacsNext]_vars

-----------------------------------------------------------------------------
(* Properties of the reader and the writer                                 *)

\* The tokens of the lines that are neither comments nor headers.
RECURSIVE ClauseTokens(_)
ClauseTokens(lines) ==
    IF lines = <<>> THEN <<>>
    ELSE (IF Head(lines).kind = "l" THEN Head(lines).toks ELSE <<>>)
         \o ClauseTokens(Tail(lines))

\* The clauses that the 0 tokens delimit: tokens[i..], after the literals of
\* clause.
RECURSIVE BetweenZeros(_, _, _)
BetweenZeros(tokens, i, clause) ==
    IF i > Len(tokens) THEN <<>>
    ELSE IF tokens[i] = 0 THEN <<clause>> \o BetweenZeros(tokens, i + 1, <<>>)
    ELSE BetweenZeros(tokens, i + 1, Append(clause, tokens[i]))

\* C14: the clauses read from a file are the sequences of literals between
\* consecutive 0 tokens of its clause text, however the text is broken into
\* lines.
C14_ClausesDelimitedByZero ==
    (listing = NoListing /\ text # <<>>) =>
        cnf.clauses = BetweenZeros(ClauseTokens(text), 1, <<>>)

\* C15: a list of non-empty clauses of non-zero literals that is written by
\* write_dimacs and read back by parse_dimacs comes back as the same
\* clauses, with the same literals in the same order, and num_clauses is
\* their number.
C15_DimacsRoundTrip ==
    (listing # NoListing /\ text # <<>>) =>
        /\ cnf.clauses = listing
        /\ cnf.num_clauses = Len(listing)

\* Clauses with negative literals and literals of several digits, written
\* and read back.
C15_Witness ==
    /\ listing = WideListing
    /\ file # NoFile
    /\ text # <<>>
    /\ Len(cnf.clauses) = 2

-----------------------------------------------------------------------------
(* Files whose literals are out of the range of the header                 *)

\* The text of a formula without its p line: the reader leaves num_vars 0.
WithoutHeader(lines) == Tail(lines)

RangeTexts == {WithoutHeader(TextOf(f)) : f \in Formulas \ {<<>>}}

RangeInit ==
    /\ text \in RangeTexts
    /\ cnf = NothingRead
    /\ CdclUnused
    /\ DpllUnused
    /\ LsUnused
    /\ HarnessUnused
    /\ EncoderUnused
    /\ CallUnused

\* The CDCL runs on these files.
SpecRange == RangeInit /\ [][CdclNext]_vars

\* Some literal of the clauses has a variable outside 1..num_vars.
OutOfRange(formula) ==
    \E i \in DOMAIN formula.clauses : \E j \in DOMAIN formula.clauses[i] :
        abs(formula.clauses[i][j]) \notin 1..formula.num_vars

\* C16: on a file with a literal whose variable is outside 1..num_vars no
\* solver searches and none returns a status: the run ends with the parse
\* error.
C16_RangeViolationIsParseError ==
    OutOfRange(parse_dimacs(text)) =>
        /\ result.status = ""
        /\ stats = NoStats
        /\ dresult.status = ""
        /\ \A r \in DOMAIN lresults : lresults[r].status = ""

-----------------------------------------------------------------------------
(* utils/sudoku_encoder.py                                                 *)

BOX == 3

\* DIGITS = range(1, 10) and range(SIZE), in order.
DIGITS == [i \in 1..SIZE |-> i]
Rows == [i \in 1..SIZE |-> i - 1]

\* var_index that counts the values from 0.
var_index_from_zero(row, col, value) == row * SIZE * SIZE + col * SIZE + value - 1

var_index(row, col, value) == row * SIZE * SIZE + col * SIZE + value

\* The pairs (i, j), i < j, of positions of a sequence of n elements, in the
\* order of the nested loops.
Pairs(n) ==
    SelectSeq([k \in 1..(n * n) |-> <<((k - 1) \div n) + 1, ((k - 1) % n) + 1>>],
              LAMBDA p : p[1] < p[2])

\* What each of the four functions appends for one sequence of variables:
\* the clause of all of them, then a clause of two negations for each pair.
one_of(variables) ==
    <<variables>>
    \o [k \in DOMAIN Pairs(Len(variables)) |->
           <<-variables[Pairs(Len(variables))[k][1]],
             -variables[Pairs(Len(variables))[k][2]]>>]

\* The pairs (a, b) of two ranges, in the order of two nested loops.
Nested(outer, inner) ==
    [k \in 1..(Len(outer) * Len(inner)) |->
        <<outer[((k - 1) \div Len(inner)) + 1], inner[((k - 1) % Len(inner)) + 1]>>]

cell_clauses ==
    Concat([k \in DOMAIN Nested(Rows, Rows) |->
               LET r == Nested(Rows, Rows)[k][1]
                   c == Nested(Rows, Rows)[k][2]
               IN one_of([i \in DOMAIN DIGITS |-> var_index(r, c, DIGITS[i])])])

row_clauses ==
    Concat([k \in DOMAIN Nested(Rows, DIGITS) |->
               LET r == Nested(Rows, DIGITS)[k][1]
                   v == Nested(Rows, DIGITS)[k][2]
               IN one_of([i \in DOMAIN Rows |-> var_index(r, Rows[i], v)])])

column_clauses ==
    Concat([k \in DOMAIN Nested(Rows, DIGITS) |->
               LET c == Nested(Rows, DIGITS)[k][1]
                   v == Nested(Rows, DIGITS)[k][2]
               IN one_of([i \in DOMAIN Rows |-> var_index(Rows[i], c, v)])])

\* range(0, SIZE, BOX) and range(BOX)
Corners == [i \in 1..(SIZE \div BOX) |-> (i - 1) * BOX]
Offsets == [i \in 1..BOX |-> i - 1]

box_clauses ==
    Concat([k \in DOMAIN Nested(Nested(Corners, Corners), DIGITS) |->
               LET br == Nested(Nested(Corners, Corners), DIGITS)[k][1][1]
                   bc == Nested(Nested(Corners, Corners), DIGITS)[k][1][2]
                   v == Nested(Nested(Corners, Corners), DIGITS)[k][2]
                   cells == [i \in DOMAIN Nested(Offsets, Offsets) |->
                                <<br + Nested(Offsets, Offsets)[i][1],
                                  bc + Nested(Offsets, Offsets)[i][2]>>]
               IN one_of([i \in DOMAIN cells |-> var_index(cells[i][1], cells[i][2], v)])])

\* clue_clauses without the test of line 84.
clue_clauses_of_all_cells(grid) ==
    [k \in DOMAIN Nested(Rows, Rows) |->
        <<var_index(Nested(Rows, Rows)[k][1], Nested(Rows, Rows)[k][2],
                    grid[Nested(Rows, Rows)[k][1] + 1][Nested(Rows, Rows)[k][2] + 1])>>]

clue_clauses(grid) ==
    LET clues == SelectSeq(Nested(Rows, Rows), LAMBDA rc : grid[rc[1] + 1][rc[2] + 1] # 0)
    IN [k \in DOMAIN clues |->
           <<var_index(clues[k][1], clues[k][2], grid[clues[k][1] + 1][clues[k][2] + 1])>>]

encode(grid) ==
    cell_clauses \o row_clauses \o column_clauses \o box_clauses \o clue_clauses(grid)

\* The cells that the grids of the model fill in, and with what: nothing, or
\* one of these values.
ClueCells == {<<0, 0>>, <<4, 7>>, <<8, 8>>}
ClueValues == {0, 1, 5, 9}

\* The rows returned by parse_puzzle for a grid of these clues.
PuzzleOf(clues) ==
    [i \in 1..SIZE |-> [j \in 1..SIZE |->
        IF <<i - 1, j - 1>> \in ClueCells THEN clues[<<i - 1, j - 1>>] ELSE 0]]

Puzzles == {PuzzleOf(clues) : clues \in [ClueCells -> ClueValues]}

SudokuInit ==
    /\ text = <<>>
    /\ cnf = NothingRead
    /\ CdclUnused
    /\ DpllUnused
    /\ LsUnused
    /\ HarnessUnused
    /\ CallUnused
    /\ puzzle \in Puzzles
    /\ listing = NoListing
    /\ file = NoFile

\* main, line 115.
Encode ==
    /\ puzzle # <<>>
    /\ listing = NoListing
    /\ listing' = encode(puzzle)
    /\ UNCHANGED <<notEncoder, text, cnf, puzzle, file>>

SudokuNext == Encode

SpecSudoku == SudokuInit /\ [][SudokuNext]_vars

-----------------------------------------------------------------------------
(* Properties of the Sudoku encoding                                       *)

Facts == (0..(SIZE - 1)) \X (0..(SIZE - 1)) \X (1..SIZE)

IndexOf(fact) == var_index(fact[1], fact[2], fact[3])

\* var_index maps the 729 facts (row, column, value) one-to-one onto 1..729.
VarIndexBijective ==
    /\ {IndexOf(fact) : fact \in Facts} = 1..(SIZE * SIZE * SIZE)
    /\ Cardinality({IndexOf(fact) : fact \in Facts}) = Cardinality(Facts)
    /\ SIZE * SIZE * SIZE = 729

\* C17: var_index is a bijection from {0..8} x {0..8} x {1..9} onto 1..729,
\* so no two facts share a variable and no variable is 0; and every literal
\* of encode(grid) has its magnitude in 1..729.
C17_SudokuVariableIndexing ==
    /\ VarIndexBijective
    /\ listing # NoListing =>
           \A k \in DOMAIN listing : \A i \in DOMAIN listing[k] :
               abs(listing[k][i]) \in 1..729

\* The encoding of a grid with a clue in its last cell.
C17_Witness ==
    /\ listing # NoListing
    /\ puzzle[SIZE][SIZE] = SIZE
    /\ \E k \in DOMAIN listing : listing[k] = <<729>>

\* The sets of nine variables of which exactly one is to be true: the
\* values of a cell, the columns of a value in a row, the rows of a value in
\* a column, the cells of a value in a box.
Places == 0..8
Values == 1..9
CellGroups == {{var_index(r, c, v) : v \in Values} : r \in Places, c \in Places}
RowGroups == {{var_index(r, c, v) : c \in Places} : r \in Places, v \in Values}
ColumnGroups == {{var_index(r, c, v) : r \in Places} : c \in Places, v \in Values}
BoxGroups ==
    {{var_index(3 * br + dr, 3 * bc + dc, v) : dr \in 0..2, dc \in 0..2} :
        br \in 0..2, bc \in 0..2, v \in Values}

\* The b-th run of 37 clauses of the listing is the clause of nine distinct
\* variables followed by 36 clauses of two negated variables of it, one for
\* each of the 36 pairs.
GroupAt(b) == Range(listing[37 * (b - 1) + 1])

ExactlyOneAt(b) ==
    LET G == GroupAt(b)
        amo(k) == listing[37 * (b - 1) + k]
    IN /\ Len(listing[37 * (b - 1) + 1]) = 9
       /\ Cardinality(G) = 9
       /\ \A k \in 2..37 :
              /\ Len(amo(k)) = 2
              /\ amo(k)[1] # amo(k)[2]
              /\ -amo(k)[1] \in G
              /\ -amo(k)[2] \in G
       /\ Cardinality({{amo(k)[1], amo(k)[2]} : k \in 2..37}) = 36

EmptyGrid == [i \in 1..SIZE |-> [j \in 1..SIZE |-> 0]]

ClueFacts == {<<r, c>> \in Places \X Places : puzzle[r + 1][c + 1] # 0}

\* C18: encode(grid) is 11988 clauses that do not depend on the grid - for
\* each of the 81 cells, 81 row/value, 81 column/value and 81 box/value
\* pairs one clause of 9 literals and 36 clauses of 2 negative literals -
\* followed by one unit clause [var_index(r, c, v)] for each cell (r, c) of
\* value v # 0, and nothing else.
C18_SudokuClauseLayout ==
    listing # NoListing =>
        /\ Len(listing) = 11988 + Cardinality(ClueFacts)
        /\ \A b \in 1..324 : ExactlyOneAt(b)
        /\ {GroupAt(b) : b \in 1..324}
               = CellGroups \cup RowGroups \cup ColumnGroups \cup BoxGroups
        /\ \A G \in {CellGroups, RowGroups, ColumnGroups, BoxGroups} :
               Cardinality(G) = 81
        /\ Cardinality(CellGroups \cup RowGroups \cup ColumnGroups \cup BoxGroups) = 324
        /\ SubSeq(listing, 1, 11988) = SubSeq(encode(EmptyGrid), 1, 11988)
        /\ Range(SubSeq(listing, 11989, Len(listing)))
               = {<<var_index(rc[1], rc[2], puzzle[rc[1] + 1][rc[2] + 1])>> : rc \in ClueFacts}

\* The encoding of a grid with three clues.
C18_Witness ==
    /\ listing # NoListing
    /\ Cardinality(ClueFacts) = 3
    /\ Len(listing) = 11991

-----------------------------------------------------------------------------
(* Properties of the rows the harness writes                               *)

\* Some clause of the formula has no literal that the assignment makes true.
Disagrees(formula, assignment) ==
    \E i \in DOMAIN formula.clauses : \A j \in DOMAIN formula.clauses[i] :
        LET literal == formula.clauses[i][j]
        IN ~(abs(literal) \in DOMAIN assignment /\ assignment[abs(literal)] = (literal > 0))

LastRecord(r) == harness[r].records[Len(harness[r].records)]

\* C19: the row the harness writes has status ERROR exactly when the solver
\* returned SAT with a non-empty assignment under which some clause of the
\* formula the harness read has no true literal; TIMEOUT, and nothing of the
\* solver's record, when the solver timed out; and the solver's own status
\* in every other case.
C19_HarnessVerification ==
    \A r \in DOMAIN harness :
        harness[r].records # <<>> =>
            IF harness[r].timed_out
            THEN /\ LastRecord(r).status = "TIMEOUT"
                 /\ harness[r].result = NoResult
                 /\ LastRecord(r).flips = None
                 /\ LastRecord(r).restarts = None
            ELSE /\ LastRecord(r).status = "ERROR" <=>
                        /\ harness[r].result.status = "SAT"
                        /\ harness[r].result.assignment # <<>>
                        /\ Disagrees(parse_dimacs(text), harness[r].result.assignment)
                 /\ LastRecord(r).status # "ERROR" =>
                        LastRecord(r).status = harness[r].result.status

\* A row rewritten to ERROR: the solver said SAT with an assignment that
\* leaves a clause without a true literal.
C19_Witness ==
    \E r \in DOMAIN harness :
        /\ harness[r].records # <<>>
        /\ LastRecord(r).status = "ERROR"
        /\ harness[r].result.status = "SAT"

-----------------------------------------------------------------------------
(* solvers/dpll_jw.py: assign_literal called on its own                    *)

\* Bound of the clause lists handed to the call: at most MaxCallLits
\* literal occurrences in all.
MaxCallLits == 3

CallFormulas == UNION {FormulasOfSize(Lits(NumVars), n) : n \in 0..MaxCallLits}

\* Every dict from variables of 1..n to truth values.
Assignments(n) == UNION {[S -> BOOLEAN] : S \in SUBSET (1..n)}

NotReturned == <<>>

\* The literal of the call is of variable 1: the clause lists and the dicts
\* are closed under renaming the variables, so the calls on other variables
\* are these calls renamed.
CallInit ==
    /\ text = <<>>
    /\ cnf = NothingRead
    /\ CdclUnused
    /\ DpllUnused
    /\ LsUnused
    /\ HarnessUnused
    /\ EncoderUnused
    /\ call \in [clauses : CallFormulas, assignment : Assignments(NumVars),
                 literal : Lits(1), returned : {NotReturned}]

notCall == <<cdclVars, dpllVars, lsVars, harnessVars, encoderVars>>

\* assign_literal(clauses, assignment, literal), lines 24-41.
AssignLiteral ==
    /\ call # <<>>
    /\ call.returned = NotReturned
    /\ call' = [call EXCEPT
                   !.returned = assign_literal(call.clauses, call.assignment,
                                               call.literal)]
    /\ UNCHANGED <<notCall, text, cnf>>

CallNext == AssignLiteral

SpecCall == CallInit /\ [][CallNext]_vars

-----------------------------------------------------------------------------
(* Properties of assign_literal                                            *)

\* The indices, in increasing order from i on, of the clauses without the
\* literal.
RECURSIVE Without(_, _, _)
Without(clauses, literal, i) ==
    IF i > Len(clauses) THEN <<>>
    ELSE IF literal \in Range(clauses[i]) THEN Without(clauses, literal, i + 1)
    ELSE <<i>> \o Without(clauses, literal, i + 1)

\* The clause with every occurrence of the literal taken out.
RECURSIVE Minus(_, _)
Minus(clause, literal) ==
    IF clause = <<>> THEN <<>>
    ELSE IF Head(clause) = literal THEN Minus(Tail(clause), literal)
    ELSE <<Head(clause)>> \o Minus(Tail(clause), literal)

HasOpposite(assignment, literal) ==
    /\ abs(literal) \in DOMAIN assignment
    /\ assignment[abs(literal)] # (literal > 0)

OnlyOpposite(clauses, literal) ==
    \E i \in DOMAIN clauses :
        /\ literal \notin Range(clauses[i])
        /\ Range(clauses[i]) = {-literal}

\* C22: assign_literal(clauses, A, l) reports a conflict exactly when the
\* variable of l has the opposite value in A or a clause without l consists
\* of -l only; otherwise it records l in A and returns the clauses without
\* l, in their order, each with every -l taken out and nothing else changed.
C22_AssignLiteralReduction ==
    (call # <<>> /\ call.returned # NotReturned) =>
        LET clauses == call.clauses
            literal == call.literal
            without == Without(clauses, literal, 1)
        IN /\ call.returned.conflict <=>
                  (HasOpposite(call.assignment, literal) \/ OnlyOpposite(clauses, literal))
           /\ ~call.returned.conflict =>
                  /\ call.returned.assignment
                         = Put(call.assignment, abs(literal), literal > 0)
                  /\ call.returned.clauses
                         = [k \in DOMAIN without |-> Minus(clauses[without[k]], -literal)]

\* A call without conflict that drops a clause and takes -l out of another.
C22_Witness ==
    /\ call # <<>>
    /\ call.returned # NotReturned
    /\ ~call.returned.conflict
    /\ \E i \in DOMAIN call.clauses : call.literal \in Range(call.clauses[i])
    /\ \E i \in DOMAIN call.returned.clauses :
           \E j \in DOMAIN call.clauses :
               /\ -call.literal \in Range(call.clauses[j])
               /\ call.returned.clauses[i] = Minus(call.clauses[j], -call.literal)

-----------------------------------------------------------------------------
(* Properties of the CDCL state                                            *)

\* Every literal of the clause is false.
Falsified(clause, assignment) ==
    \A i \in DOMAIN clause : value_of(clause[i], assignment) = "False"

\* Exactly one literal of the clause is unassigned and its other literals
\* are false.
UnitUnder(clause, assignment) ==
    /\ Cardinality({i \in DOMAIN clause : value_of(clause[i], assignment) = "None"}) = 1
    /\ \A i \in DOMAIN clause : value_of(clause[i], assignment) # "True"

\* C24: when propagate has returned None in the search loop, no clause of
\* the formula, original or learned, has all its literals false, and none
\* has exactly one unassigned literal and all its other literals false.
C24_PropagationFixpoint ==
    ctl.pc = "decide" =>
        \A c \in DOMAIN state.formula :
            /\ ~Falsified(state.formula[c], state.assignment)
            /\ ~UnitUnder(state.formula[c], state.assignment)


\* watch_map[c] is a pair of literals of clause c, distinct unless the
\* clause has a single literal, and the lists of watches that hold c are
\* those of the two literals.
WellWatched(s, c) ==
    /\ c \in DOMAIN s.watch_map
    /\ LET clause == s.formula[c]
           w == s.watch_map[c]
       IN /\ {w[1], w[2]} \subseteq Range(clause)
          /\ Len(clause) >= 2 => w[1] # w[2]
          /\ Len(clause) = 1 => w[1] = w[2]
          /\ \A l \in DOMAIN s.watches \cup {w[1], w[2]} :
                 c \in Range(Get(s.watches, l, <<>>)) <=> l \in {w[1], w[2]}

\* C25: in every state of a CDCL run every clause of the formula, original
\* or learned, is watched as above, and no step changes or removes a clause.
C25_WatchStructure ==
    [][/\ \A c \in DOMAIN state'.formula : WellWatched(state', c)
       /\ \A c \in DOMAIN state.formula :
              /\ c \in DOMAIN state'.formula
              /\ state'.formula[c] = state.formula[c]]_vars


\* analyze_conflict is about to return ctl.learned: its loop has ended, by
\* its test or by the break of line 207.
Analyzed ==
    \/ ctl.pc = "analyze" /\ count_curr_level(state, ctl.learned) <= 1
    \/ ctl.pc = "learn"

\* The decision levels of the literals of the clause that are not assigned
\* at the current level.
OtherLevels(s, clause) ==
    {level_of(s, clause[i], 0) : i \in DOMAIN clause} \ {s.decision_level}

Total(T, n) == [v \in 1..n |-> v \in T]

\* Every total assignment that satisfies all the clauses satisfies the
\* clause.
Implies(clauses, clause) ==
    LET n == NumVarsOf(Append(clauses, clause))
    IN \A T \in SUBSET (1..n) :
           (\A i \in DOMAIN clauses : SatisfiedBy(clauses[i], Total(T, n)))
               => SatisfiedBy(clause, Total(T, n))

\* C28: every clause that learn_clause appends to the formula is implied
\* by the clauses read from the file.
C28_LearnedImplied ==
    [][LearnAndBackjump =>
          /\ Len(state'.formula) = Len(state.formula) + 1
          /\ Implies(cnf.clauses, state'.formula[Len(state'.formula)])]_vars

\* A learned clause that is the resolvent of a conflict clause and a reason
\* and is no clause of the file.
C28_Witness ==
    /\ Len(state.formula) > Len(cnf.clauses)
    /\ Len(cnf.clauses) > 0
    /\ \A i \in DOMAIN cnf.clauses : cnf.clauses[i] # state.formula[Len(state.formula)]


\* The variables the state holds at a decision level above the level.
Above(s, level) ==
    {v \in DOMAIN s.decision_levels : s.decision_levels[v] > level}

\* C29: the call backtrack(L) of a conflict takes exactly the variables of a
\* decision level above L out of assignment, decision_levels and reason,
\* sets the current decision level to L, and leaves the entries of the other
\* variables, the clauses, watches, watch_map, the VSIDS scores and the
\* saved phases as they were.
C29_BacktrackFrame ==
    Analyzed =>
        LET before == learn_clause(state, ctl.learned)
            level == backjump_level(state, ctl.learned)
            after == backtrack(before, level)
        IN /\ DOMAIN after.assignment = (DOMAIN before.assignment) \ Above(before, level)
           /\ DOMAIN after.decision_levels
                  = (DOMAIN before.decision_levels) \ Above(before, level)
           /\ DOMAIN after.reason = (DOMAIN before.reason) \ Above(before, level)
           /\ \A v \in DOMAIN after.assignment :
                  /\ after.assignment[v] = before.assignment[v]
                  /\ after.decision_levels[v] = before.decision_levels[v]
                  /\ after.reason[v] = before.reason[v]
           /\ after.decision_level = level
           /\ after.formula = before.formula
           /\ after.watches = before.watches
           /\ after.watch_map = before.watch_map
           /\ after.vsids = before.vsids
           /\ after.scale = before.scale
           /\ after.phase = before.phase

\* A backtrack over two decision levels that keeps the variables of a
\* level above 0.
C29_Witness ==
    /\ Analyzed
    /\ backjump_level(state, ctl.learned) > 0
    /\ state.decision_level > backjump_level(state, ctl.learned) + 1


\* The literals of the trail, in its order, that the state holds at a
\* decision level of at most the level.
UpTo(s, level) ==
    SelectSeq(s.level_literals, LAMBDA lit : level_of(s, lit, level + 1) <= level)

\* The trail holds one literal for each assigned variable, of the polarity
\* of its value.
TrailOfAssignment(s) ==
    /\ {abs(lit) : lit \in Range(s.level_literals)} = DOMAIN s.assignment
    /\ Len(s.level_literals) = Cardinality(DOMAIN s.assignment)
    /\ \A i \in DOMAIN s.level_literals :
           value_of(s.level_literals[i], s.assignment) = "True"

\* C30: at every point of a CDCL run the trail holds exactly one literal for
\* each assigned variable, of the polarity of its value, in the order of the
\* assignments: a step that backtracks keeps the trail's literals of the
\* levels up to the backjump level, in their order, and every other step
\* only appends to the trail.
C30_TrailContent ==
    [][/\ TrailOfAssignment(state')
       /\ IF LearnAndBackjump
          THEN LET retained == UpTo(state, backjump_level(state, ctl.learned))
               IN SubSeq(state'.level_literals, 1, Len(retained)) = retained
          ELSE SubSeq(state'.level_literals, 1, Len(state.level_literals))
                   = state.level_literals]_vars


\* The variables of the formula that are unassigned.
Undecided(s) == (DOMAIN s.vsids) \ (DOMAIN s.assignment)

\* C31: when propagation has returned no conflict the solver returns SAT
\* exactly when no variable of the formula is unassigned; otherwise it
\* decides the unassigned variable of the highest VSIDS score, the lowest id
\* among equal scores, gives it its saved phase at a decision level one
\* higher and counts one decision.  The saved phase of a variable is the
\* value it was last given: it is the value of every assigned variable, and
\* no step changes it for a variable it leaves unassigned.
C31_DecisionRule ==
    [][/\ \A v \in DOMAIN state'.assignment : state'.phase[v] = state'.assignment[v]
       /\ \A v \in (DOMAIN state.phase) \ (DOMAIN state'.assignment) :
              state'.phase[v] = state.phase[v]
       /\ ctl.pc = "start" => \A v \in DOMAIN state'.phase : state'.phase[v] = TRUE
       /\ Decide =>
              IF Undecided(state) = {}
              THEN result'.status = "SAT"
              ELSE /\ result'.status = ""
                   /\ \E v \in Undecided(state) :
                          /\ \A u \in Undecided(state) :
                                 \/ state.vsids[u] < state.vsids[v]
                                 \/ (state.vsids[u] = state.vsids[v] /\ v <= u)
                          /\ DOMAIN state'.assignment = (DOMAIN state.assignment) \cup {v}
                          /\ state'.assignment[v] = state.phase[v]
                          /\ state'.decision_level = state.decision_level + 1
                          /\ state'.decision_levels[v] = state'.decision_level
                          /\ stats'.decisions = stats.decisions + 1]_vars

\* The solver has decided a variable a second time, after a backjump, with a
\* saved phase that is false.
C31_Witness ==
    /\ ctl.pc = "propagate"
    /\ stats.learned_clauses > 0
    /\ state.level_literals # <<>>
    /\ LET decided == state.level_literals[Len(state.level_literals)]
       IN /\ decided < 0
          /\ state.reason[abs(decided)] = NoClause
          /\ state.decision_levels[abs(decided)] = state.decision_level
          /\ state.decision_level > 0

-----------------------------------------------------------------------------
(* solvers/cdcl.py: the restart schedule                                   *)

\* A restart needs restart_limit conflicts above level 0 in one run, at
\* least 100, which no formula of a few clauses produces.  SpecRestart
\* therefore takes up the loop of cdcl with its two local counters at values
\* a longer run reaches: restart_limit as it stands after r restarts, and
\* conflicts_since_restart at most MaxToGo conflicts short of it.  The
\* formula, the solver state and the other counters are those of a run that
\* begins; the restart branch reads none of what the earlier conflicts of
\* the longer run would have left in them.
MaxPriorRestarts == 2
MaxToGo == 2

\* restart_limit after r restarts (cdcl, lines 254 and 287).
RECURSIVE restart_limit_after(_)
restart_limit_after(r) ==
    IF r = 0 THEN restart_limit_init
    ELSE (restart_limit_after(r - 1) * RestartMulNum) \div RestartMulDen

\* The scenarios that meet a conflict above level 0.
RestartScenarios == {XorLike, Pigeonhole, TwoConflicts, ThreeConflicts, ReasonLiterals}

RestartInit ==
    /\ text \in {TextOf(f) : f \in RestartScenarios}
    /\ cnf = NothingRead
    /\ state = initialize_state(<<>>)
    /\ result = Running
    /\ \E r \in 0..MaxPriorRestarts, togo \in 1..MaxToGo :
          /\ stats = [NoStats EXCEPT !.restarts = r]
          /\ ctl = [Idle EXCEPT
                       !.restart_limit = restart_limit_after(r),
                       !.conflicts_since_restart = restart_limit_after(r) - togo]
    /\ DpllUnused
    /\ LsUnused
    /\ HarnessUnused
    /\ EncoderUnused
    /\ CallUnused

SpecRestart == RestartInit /\ [][CdclNext]_vars

\* The step in which cdcl finishes the handling of a conflict met above
\* level 0 (lines 265-288).
ConflictHandled == stats'.learned_clauses = stats.learned_clauses + 1

\* The step in which propagate returns a conflict to the loop of cdcl.
ConflictMet ==
    /\ ctl.pc = "propagate"
    /\ ctl'.pc \in {"analyze", "done"}
    /\ stats'.conflicts # stats.conflicts

\* The restart schedule, next_limit(limit, limit') saying how a restart
\* changes the limit.
RestartSchedule(next_limit(_, _)) ==
    LET restarted == stats'.restarts # stats.restarts
    IN \* the count goes up by one at each conflict, and is otherwise
       \* changed by a restart only
       /\ ConflictMet
            => ctl'.conflicts_since_restart = ctl.conflicts_since_restart + 1
       /\ (~ConflictMet /\ ~restarted)
            => ctl'.conflicts_since_restart = ctl.conflicts_since_restart
       \* a restart is taken when, and only when, the handling of a conflict
       \* above level 0 ends with the count at the limit
       /\ restarted <=> (ConflictHandled
                          /\ ctl.conflicts_since_restart = ctl.restart_limit)
       /\ ctl.conflicts_since_restart <= ctl.restart_limit
       /\ stats.restarts = 0 => ctl.restart_limit = 100
       /\ ~restarted => ctl'.restart_limit = ctl.restart_limit
       /\ restarted =>
            /\ stats'.restarts = stats.restarts + 1
            /\ ctl'.conflicts_since_restart = 0
            /\ next_limit(ctl.restart_limit, ctl'.restart_limit)
            \* back at level 0, nothing assigned above it
            /\ state'.decision_level = 0
            /\ \A v \in DOMAIN state'.assignment : state'.decision_levels[v] = 0
            /\ DOMAIN state'.decision_levels = DOMAIN state'.assignment
            \* the clause list is the one the conflict leaves, the learned
            \* clause last
            /\ state'.formula = Append(state.formula, ctl.learned)
            \* and so are the scores: bumped for the learned clause, decayed
            /\ state'.scale = state.scale * DecayDen
            /\ DOMAIN state'.vsids
                 = (DOMAIN state.vsids) \cup {abs(l) : l \in Range(ctl.learned)}
            /\ \A v \in DOMAIN state'.vsids :
                 state'.vsids[v] =
                     (Get(state.vsids, v, 0)
                        + state.scale * occurrences(ctl.learned, v)) * DecayNum

ByOneAndAHalf(limit, new) == 2 * new = 3 * limit
ByOneAndAHalfTruncated(limit, new) == new = (3 * limit) \div 2

-----------------------------------------------------------------------------
(* solvers/cdcl.py: the maps assignment, decision_levels and reason        *)

\* The three maps have the same keys and every level is one the search is
\* at or below.
SameKeys(s) ==
    /\ DOMAIN s.decision_levels = DOMAIN s.assignment
    /\ DOMAIN s.reason = DOMAIN s.assignment
    /\ \A v \in DOMAIN s.assignment :
          s.decision_levels[v] >= 0 /\ s.decision_levels[v] <= s.decision_level

\* The literal of variable v that the assignment of s makes true.
TrueLiteral(s, v) == IF s.assignment[v] THEN v ELSE -v

\* v is assigned as an original clause of one literal asks.
ByOriginalUnit(s, v) ==
    \E i \in DOMAIN cnf.clauses : cnf.clauses[i] = <<TrueLiteral(s, v)>>

\* What the reasons of a state tell: a variable without a reason is a
\* decision (above level 0) or the variable of an original unit clause (at
\* level 0); a reason is a clause of the list holding the variable's true
\* literal.
ReasonsTell(s) ==
    \A v \in DOMAIN s.assignment :
        IF s.reason[v] = NoClause
        THEN s.decision_levels[v] = 0 => ByOriginalUnit(s, v)
        ELSE /\ s.reason[v] \in Range(s.formula)
             /\ TrueLiteral(s, v) \in Range(s.reason[v])

\* The variables a step assigns, or assigns anew.
Assigned ==
    {v \in DOMAIN state'.assignment :
        \/ v \notin DOMAIN state.assignment
        \/ state'.reason[v] # state.reason[v]
        \/ state'.decision_levels[v] # state.decision_levels[v]}

\* C33: assignment, decision_levels and reason always have the same keys;
\* every recorded level lies between 0 and decision_level; a variable has an
\* empty reason exactly when a decision or an original unit clause at level
\* 0 assigned it: the unit pass and the decisions record no reason, what
\* propagate and the learned clause assign has the clause as its reason.
C33_Bookkeeping ==
    [][/\ SameKeys(state) /\ SameKeys(state')
       /\ ReasonsTell(state) /\ ReasonsTell(state')
       /\ \A v \in Assigned :
             CASE ctl.pc = "units" ->
                     /\ state'.reason[v] = NoClause
                     /\ state'.decision_levels[v] = 0
                     /\ ByOriginalUnit(state', v)
               [] ctl.pc = "decide" ->
                     /\ state'.reason[v] = NoClause
                     /\ state'.decision_levels[v] = state.decision_level + 1
                     /\ state'.decision_level = state.decision_level + 1
               [] ctl.pc \in {"propagate0", "propagate"} ->
                     /\ state'.reason[v] # NoClause
                     /\ state'.decision_levels[v] = state.decision_level
               [] OTHER ->
                     /\ ctl'.pc = "propagate"
                     /\ ctl.learned # NoClause
                     /\ state'.reason[v] = ctl.learned
                     /\ state'.decision_levels[v] = state'.decision_level
      ]_vars

\* A decision and a variable asserted by a learned clause stand side by
\* side, together with a variable of an original unit clause.
C33_Witness ==
    \E d, a, u \in DOMAIN state.assignment :
        /\ state.reason[d] = NoClause
        /\ state.decision_levels[d] > 0
        /\ state.reason[a] # NoClause
        /\ state.reason[a] \notin Range(cnf.clauses)
        /\ state.reason[u] = NoClause
        /\ state.decision_levels[u] = 0

-----------------------------------------------------------------------------
(* solvers/cdcl.py: the conflicts counter                                  *)

\* The step in which the propagate call of the search loop (line 259)
\* returns a conflict clause.
ConflictReturned == ctl.pc = "propagate" /\ ctl'.pc \in {"analyze", "done"}

\* C34: conflicts goes up by exactly one for each conflict clause that
\* propagate returns during the search; so a run that ends with SAT reports
\* conflicts = learned_clauses, and a run that finds UNSAT inside the search
\* loop reports conflicts = learned_clauses + 1.
C34_ConflictCount ==
    [][/\ ConflictReturned => stats'.conflicts = stats.conflicts + 1
       /\ (ctl'.pc = "done" /\ result'.status = "SAT")
              => result'.conflicts = result'.learned_clauses
       /\ (ConflictReturned /\ ctl'.pc = "done")
              => /\ result'.status = "UNSAT"
                 /\ result'.conflicts = result'.learned_clauses + 1
      ]_vars

-----------------------------------------------------------------------------
(* solvers/walksat.py: the greedy step                                     *)

\* The assignment a makes a literal of the clause true.
Satisfies(a, clause) == \E l \in Range(clause) : a[abs(l)] = (l > 0)

\* The clauses of the formula that a leaves unsatisfied, in their order.
Unsatisfied(a) == SelectSeq(cnf.clauses, LAMBDA clause : ~Satisfies(a, clause))

\* a with the value of v changed, every other value as it is.
Flip(a, v) == [w \in DOMAIN a |-> IF w = v THEN ~a[w] ELSE a[w]]

\* The number of clauses left unsatisfied once v is flipped.
After(a, v) == Len(Unsatisfied(Flip(a, v)))

\* A step of walk_sat's loop that changes the assignment.
WalkSatFlip ==
    /\ turn \in DOMAIN ls
    /\ me.solver = "walksat"
    /\ me.pc = "step"
    /\ ls'[turn].assignment # me.assignment

\* The step drew twice: the clause and random.random(), which was not below
\* noise.
NotNoise == rng'[turn].pos = rng[turn].pos + 2

\* C35: a step of walk_sat that is not a noise step flips, in the chosen
\* unsatisfied clause, the variable whose flip leaves the fewest clauses
\* unsatisfied, the first such variable of the clause on ties; the assignment
\* after the step differs from the one before in that variable only, the
\* tentative flips being undone; flips goes up by one with each flip and
\* with nothing else.
C35_GreedyStep ==
    [][(turn \in DOMAIN ls /\ me.solver = "walksat") =>
          LET a == me.assignment
              b == ls'[turn].assignment
          IN /\ ls'[turn].stats.flips =
                    me.stats.flips + (IF WalkSatFlip THEN 1 ELSE 0)
             /\ WalkSatFlip => \E v \in DOMAIN a : b = Flip(a, v)
             /\ (WalkSatFlip /\ NotNoise) =>
                   \E u \in Drawn(rng[turn], 1, Len(Unsatisfied(a))) :
                      LET clause == Unsatisfied(a)[u + 1]
                      IN \E i \in DOMAIN clause :
                            /\ b = Flip(a, abs(clause[i]))
                            /\ \A j \in DOMAIN clause :
                                  After(a, abs(clause[i])) <= After(a, abs(clause[j]))
                            /\ \A j \in 1..(i - 1) :
                                  After(a, abs(clause[j])) > After(a, abs(clause[i]))
      ]_vars

\* The first step of a walk_sat attempt on XorLike was a greedy one and led
\* to 1 false, 2 true: from both true, in the clause -1 -2, whose two
\* variables tie with one clause left unsatisfied each.
C35_Witness ==
    \E r \in DOMAIN ls :
        /\ ls[r].solver = "walksat"
        /\ ls[r].attempt = 0
        /\ ls[r].stats.flips = 1
        /\ rng[r].pos = cnf.num_vars + 2
        /\ cnf.clauses = XorLike
        /\ ls[r].assignment = <<FALSE, TRUE>>

-----------------------------------------------------------------------------
(* solvers/walksat.py, solvers/probsat.py: the end of an attempt           *)

\* The step in which walk_sat or prob_sat returns None, having flipped.
ReturnsNone ==
    /\ turn \in DOMAIN ls
    /\ me.pc = "step"
    /\ me.step > 0
    /\ ls'[turn].pc = "attempt"

\* C36: when an attempt of walk_sat or prob_sat returns None, its flips used
\* up, the assignment reached by its last flip leaves a clause unsatisfied:
\* an assignment that satisfies every clause is returned, never dropped.
C36_NoModelDiscarded ==
    [][ReturnsNone => Unsatisfied(me.assignment) # <<>>]_vars

=============================================================================
